---------------------------- MODULE Spec2Model ----------------------------
(***************************************************************************)
(* Timetable generator: the Session Divider (excel_loader.py) and the Slot *)
(* Allocator (schedule_generator.py) as state machines.                    *)
(*                                                                         *)
(* A course row is a record                                                *)
(*   [code, dept, sem, credits, elective, L, T, P]                         *)
(* where elective is the value of the elective column ('YES' = TRUE) and   *)
(* L, T, P are Lectures_Per_Week, Tutorials_Per_Week, Labs_Per_Week as     *)
(* parse_ltpsc leaves them.  The substring tests the code makes on the     *)
(* Course Code / Course Name (ELEC, HSS, Minor) are tables over the codes  *)
(* the model uses.                                                         *)
(***************************************************************************)
EXTENDS Integers, Sequences, FiniteSets, TLC

VARIABLES
    catalog,        \* dfs['course'] after get_semester_courses + parse_ltpsc
    session_map,    \* ExcelLoader._two_credit_course_session_map
    division,       \* per (semester, department): the lists last returned by
                    \* divide_courses_by_session and the map seen at that call
    semester_global_slots,   \* ScheduleGenerator.semester_global_slots
    semester_minor_slots,    \* ScheduleGenerator.semester_minor_slots
    semester_elective_slots, \* ScheduleGenerator.semester_elective_slots
    scheduled_courses,       \* ScheduleGenerator.scheduled_courses
    actual_allocations,      \* ScheduleGenerator.actual_allocations
    meetings,       \* per course key: lab_meetings, lec_meetings, tut_meetings
                    \* as _schedule_course holds them when it returns
    schedules,      \* the grids returned by generate_department_schedule
    frame,          \* the locals of the running generate_department_schedule
    room_state,     \* the room attributes of the ScheduleGenerator: classrooms,
                    \* lab_rooms, software_lab_rooms, hardware_lab_rooms,
                    \* room_occupancy, room_bookings, assigned_rooms,
                    \* assigned_lab_rooms; registered_students, the enrolment
                    \* column of dfs['course']; room_paths, per course key and
                    \* kind ("room", "lab"): one room (pair) for all meetings
                    \* ("single") or one per meeting ("per_meeting")
    validation      \* the list main.py gets from validate_room_conflicts

dvars == <<catalog, session_map, division>>
svars == <<semester_global_slots, semester_minor_slots, semester_elective_slots,
           scheduled_courses, actual_allocations, meetings, schedules, frame>>
rvars == <<room_state, validation>>
vars == <<catalog, session_map, division, semester_global_slots,
          semester_minor_slots, semester_elective_slots, scheduled_courses,
          actual_allocations, meetings, schedules, frame, room_state,
          validation>>

-----------------------------------------------------------------------------
(* config.py *)

DEPARTMENTS == <<"CSE-A", "CSE-B", "DSAI", "ECE">>
PRE_MID == "Pre-Mid"
POST_MID == "Post-Mid"
SESSIONS == <<PRE_MID, POST_MID>>

DeptSet == {DEPARTMENTS[i] : i \in 1..Len(DEPARTMENTS)}
CSE_SECTIONS == {"CSE", "CSE-A", "CSE-B"}

-----------------------------------------------------------------------------
(* Bounds of the model *)

\* number of rows of the course table in the divider's input family
MaxRows == 3

-----------------------------------------------------------------------------
(* Course codes of the model and the substring tests on them *)

\* the codes in the order Python compares them as strings (sort_values)
CodeOrder == <<"CS1", "CS2", "ELEC1", "HSS1", "MINOR1", "OE1">>
Codes == {CodeOrder[i] : i \in 1..Len(CodeOrder)}
CodeRank(code) == CHOOSE i \in 1..Len(CodeOrder) : CodeOrder[i] = code

\* str.contains('ELEC'), str.contains('HSS'), str.contains(MINOR_SUBJECT)
ContainsELEC(code) == code \in {"ELEC1"}
ContainsHSS(code) == code \in {"HSS1"}
ContainsMinor(code) == code \in {"MINOR1"}

-----------------------------------------------------------------------------
(* DataFrame helpers *)

CodesOf(df) == {df[i].code : i \in 1..Len(df)}

RECURSIVE RowsAt(_, _)
\* the rows of df at the positions in idx, in df's order
RowsAt(df, idx) ==
    IF idx = {} THEN <<>>
    ELSE LET m == CHOOSE i \in idx : \A j \in idx : j <= i
         IN  Append(RowsAt(df, idx \ {m}), df[m])

\* set(slots)
SetOf(slots) == {slots[i] : i \in 1..Len(slots)}

\* df[mask]
Filter(df, Keep(_)) == RowsAt(df, {i \in 1..Len(df) : Keep(df[i])})

\* df.drop_duplicates(subset=['Course Code']): the first row of each code
drop_duplicates(df) ==
    RowsAt(df, {i \in 1..Len(df) : \A j \in 1..(i - 1) : df[j].code # df[i].code})

RECURSIVE SortUpTo(_, _)
SortUpTo(df, k) ==
    IF k = 0 THEN <<>>
    ELSE SortUpTo(df, k - 1) \o Filter(df, LAMBDA r : CodeRank(r.code) = k)

\* df.sort_values('Course Code')
sort_values(df) == SortUpTo(df, Len(CodeOrder))

\* df[col] = 'YES' on every row
SetElective(df) == [i \in 1..Len(df) |-> [df[i] EXCEPT !.elective = TRUE]]

\* pd.concat of two frames
Concat(a, b) == a \o b

-----------------------------------------------------------------------------
(* ExcelLoader._apply_two_credit_sharing *)

NoSession == "none"
EmptyMap == [c \in Codes |-> NoSession]

\* _is_shared_two_credit: some row of the code has Credits <= 2 and the code
\* occurs in at least two of the groups CSE (CSE, CSE-A, CSE-B), DSAI, ECE
is_shared_two_credit(all_sem_courses, course_code) ==
    LET subset == Filter(all_sem_courses, LAMBDA r : r.code = course_code)
        normalized_depts ==
            {IF subset[i].dept \in CSE_SECTIONS THEN "CSE" ELSE subset[i].dept :
                i \in {j \in 1..Len(subset) :
                         subset[j].dept \in CSE_SECTIONS \cup {"DSAI", "ECE"}}}
    IN  /\ subset # <<>>
        /\ \E i \in 1..Len(subset) : subset[i].credits <= 2
        /\ Cardinality(normalized_depts) >= 2

\* _get_elective_codes: the codes whose elective column is 'YES'
get_elective_codes(df) == {df[i].code : i \in {j \in 1..Len(df) : df[j].elective}}

remove_course(df, code) == Filter(df, LAMBDA r : r.code # code)
get_course_rows(df, code) == Filter(df, LAMBDA r : r.code = code)

\* Step 1: a CSE section records the session of each shared 2-credit course,
\* Pre-Mid list first, only where the map has no entry yet
RecordCSE(pre_mid_df, post_mid_df, all_sem_courses, shared_map) ==
    [c \in Codes |->
        IF shared_map[c] # NoSession THEN shared_map[c]
        ELSE IF c \in CodesOf(pre_mid_df) /\ is_shared_two_credit(all_sem_courses, c)
             THEN "Pre"
        ELSE IF c \in CodesOf(post_mid_df) /\ is_shared_two_credit(all_sem_courses, c)
             THEN "Post"
        ELSE NoSession]

\* Step 2, one code: move the course of DSAI/ECE to the session opposite to
\* the one recorded for CSE, then deduplicate both lists
MoveCourse(lists, code, cse_session) ==
    LET pre_mid_df == lists.pre
        post_mid_df == lists.post
        in_pre == code \in CodesOf(pre_mid_df)
        in_post == code \in CodesOf(post_mid_df)
    IN  IF cse_session = "Post"
        THEN \* desired_session = 'Pre'
             LET row == get_course_rows(post_mid_df, code)
                 post1 == IF in_post /\ row # <<>> THEN remove_course(post_mid_df, code)
                          ELSE post_mid_df
                 pre1 == IF in_post /\ row # <<>> THEN Concat(pre_mid_df, row)
                         ELSE pre_mid_df
             IN  [pre |-> drop_duplicates(pre1),
                  post |-> drop_duplicates(remove_course(post1, code))]
        ELSE \* desired_session = 'Post'
             LET row == get_course_rows(pre_mid_df, code)
                 pre1 == IF in_pre /\ row # <<>> THEN remove_course(pre_mid_df, code)
                         ELSE pre_mid_df
                 post1 == IF in_pre /\ row # <<>> THEN Concat(post_mid_df, row)
                          ELSE post_mid_df
             IN  [pre |-> drop_duplicates(remove_course(pre1, code)),
                  post |-> drop_duplicates(post1)]

RECURSIVE MoveAll(_, _, _, _, _)
\* the loop of Step 2 over all_codes (taken in code order; the moves of
\* different codes do not interfere)
MoveAll(lists, k, all_codes, all_sem_courses, shared_map) ==
    IF k = 0 THEN lists
    ELSE LET before == MoveAll(lists, k - 1, all_codes, all_sem_courses, shared_map)
             code == CodeOrder[k]
         IN  IF /\ code \in all_codes
                /\ is_shared_two_credit(all_sem_courses, code)
                /\ shared_map[code] # NoSession
             THEN MoveCourse(before, code, shared_map[code])
             ELSE before

\* variant of Step 2 that leaves both lists as the split produced them
AlternateOthers_Keep(pre_mid_df, post_mid_df, all_sem_courses, shared_map) ==
    [pre |-> pre_mid_df, post |-> post_mid_df]

\* Step 2 for DSAI and ECE: electives are never moved
AlternateOthers(pre_mid_df, post_mid_df, all_sem_courses, shared_map) ==
    LET elective_codes_union ==
            get_elective_codes(pre_mid_df) \cup get_elective_codes(post_mid_df)
        all_codes == (CodesOf(pre_mid_df) \cup CodesOf(post_mid_df)) \ elective_codes_union
    IN  MoveAll([pre |-> pre_mid_df, post |-> post_mid_df], Len(CodeOrder),
                all_codes, all_sem_courses, shared_map)

\* the whole function; the result carries the lists and the updated map of
\* the semester
apply_two_credit_sharing(pre_mid_df, post_mid_df, department, all_sem_courses, shared_map) ==
    IF department \notin CSE_SECTIONS \cup {"DSAI", "ECE"} \/ all_sem_courses = <<>>
    THEN [pre |-> pre_mid_df, post |-> post_mid_df, map |-> shared_map]
    ELSE IF department \in CSE_SECTIONS
    THEN [pre |-> pre_mid_df, post |-> post_mid_df,
          map |-> RecordCSE(pre_mid_df, post_mid_df, all_sem_courses, shared_map)]
    ELSE LET moved == AlternateOthers(pre_mid_df, post_mid_df, all_sem_courses, shared_map)
         IN  [pre |-> moved.pre, post |-> moved.post, map |-> shared_map]

-----------------------------------------------------------------------------
(* ExcelLoader.divide_courses_by_session *)

IsElectiveLocal(r) == (r.elective \/ ContainsELEC(r.code)) /\ ~ContainsHSS(r.code)
InCSE(r) == r.dept \in CSE_SECTIONS

\* hss_courses: the department's own HSS rows, else a copy of the first HSS
\* row of the semester with the department substituted and the flag cleared
HssCourses(regular_courses, department, all_sem_courses) ==
    LET native == Filter(regular_courses, LAMBDA r : ContainsHSS(r.code))
        sem_hss == Filter(all_sem_courses, LAMBDA r : ContainsHSS(r.code))
    IN  IF native # <<>> THEN native
        ELSE IF sem_hss # <<>>
             THEN <<[sem_hss[1] EXCEPT !.dept = department, !.elective = FALSE]>>
             ELSE <<>>

\* elective_from_all: the rows flagged 'YES' in the semester-wide list, of the
\* CSE sections for CSE-A/CSE-B and of the department itself otherwise
ElectiveFromAll(department, all_sem_courses) ==
    LET flagged == Filter(all_sem_courses, LAMBDA r : r.elective)
        of_dept == IF department \in {"CSE-A", "CSE-B"}
                   THEN Filter(flagged, InCSE)
                   ELSE Filter(flagged, LAMBDA r : r.dept = department)
    IN  SetElective(drop_duplicates(of_dept))

\* the half-semester list of a CSE section: taken from the semester-wide list
HalfSemCSE(all_sem_courses, elective_courses) ==
    LET elective_codes_set == CodesOf(elective_courses)
        no_elec == Filter(all_sem_courses,
                          LAMBDA r : r.code \notin elective_codes_set /\ ~r.elective)
        low == Filter(no_elec, LAMBDA r : r.credits <= 2 /\ InCSE(r))
    IN  Filter(drop_duplicates(low), LAMBDA r : r.code \notin elective_codes_set)

\* split_point = (n + 1) // 2 of the list sorted by Course Code
SplitPoint(n) == (n + 1) \div 2
PreHalf(half_sem_courses) ==
    LET sorted == sort_values(half_sem_courses)
    IN  SubSeq(sorted, 1, SplitPoint(Len(sorted)))
\* variant of the Post-Mid half that starts one row too late
PostHalf_Late(half_sem_courses) ==
    LET sorted == sort_values(half_sem_courses)
    IN  SubSeq(sorted, SplitPoint(Len(sorted)) + 2, Len(sorted))
PostHalf(half_sem_courses) ==
    LET sorted == sort_values(half_sem_courses)
    IN  SubSeq(sorted, SplitPoint(Len(sorted)) + 1, Len(sorted))

\* the flag is set to 'YES' on every row whose code is an elective code
MarkElectives(df, elective_codes_set) ==
    [i \in 1..Len(df) |->
        IF df[i].code \in elective_codes_set THEN [df[i] EXCEPT !.elective = TRUE]
        ELSE df[i]]

\* the lists before the 2-credit coordination, with the intermediate frames
DivideParts(courses_in, department, all_sem_courses) ==
    LET courses_df == Filter(courses_in, LAMBDA r : ~ContainsMinor(r.code))
        elective_local == SetElective(Filter(courses_df, IsElectiveLocal))
        regular0 == Filter(courses_df, LAMBDA r : ~IsElectiveLocal(r))
        hss_courses == HssCourses(regular0, department, all_sem_courses)
        regular1 == Filter(regular0, LAMBDA r : ~ContainsHSS(r.code))
        elective_from_all == ElectiveFromAll(department, all_sem_courses)
        elective_courses ==
            IF elective_from_all # <<>>
            THEN SetElective(drop_duplicates(Concat(elective_local, elective_from_all)))
            ELSE elective_local
        regular_courses == Filter(regular1, LAMBDA r : r.code \notin CodesOf(elective_courses))
        full_sem_courses == Filter(regular_courses, LAMBDA r : r.credits > 2)
        half_own == Filter(regular_courses, LAMBDA r : r.credits <= 2)
        half_sem_courses == IF department \in {"CSE-A", "CSE-B"}
                            THEN HalfSemCSE(all_sem_courses, elective_courses)
                            ELSE half_own
        pre_half == PreHalf(half_sem_courses)
        post_half == PostHalf(half_sem_courses)
        head == Concat(Concat(elective_courses, hss_courses), full_sem_courses)
    IN  [elective |-> elective_courses,
         hss |-> hss_courses,
         full |-> full_sem_courses,
         half |-> sort_values(half_sem_courses),
         pre |-> MarkElectives(drop_duplicates(Concat(head, pre_half)),
                               CodesOf(elective_courses)),
         post |-> MarkElectives(drop_duplicates(Concat(head, post_half)),
                                CodesOf(elective_courses))]

\* divide_courses_by_session(courses_df, department, all_sem_courses) with the
\* session map of the semester; [pre, post, map]
divide_courses_by_session(courses_in, department, all_sem_courses, shared_map) ==
    IF courses_in = <<>>
    THEN [pre |-> <<>>, post |-> <<>>, map |-> shared_map]
    ELSE LET parts == DivideParts(courses_in, department, all_sem_courses)
         IN  apply_two_credit_sharing(parts.pre, parts.post, department,
                                      all_sem_courses, shared_map)

-----------------------------------------------------------------------------
(* The callers of the divider and the divider's state *)

TARGET_SEMESTERS == <<1, 3, 5>>
\* the semesters the model runs: the first two target semesters
Semesters == {TARGET_SEMESTERS[1], TARGET_SEMESTERS[2]}

\* ExcelLoader.get_semester_courses + parse_ltpsc: the rows of one semester
get_semester_courses(dfs, semester_id) == Filter(dfs, LAMBDA r : r.sem = semester_id)

\* the department filter (Department matches ^department$)
DeptCourses(sem_courses_parsed, department) ==
    Filter(sem_courses_parsed, LAMBDA r : r.dept = department)

NoDivision == [called |-> FALSE, pre |-> <<>>, post |-> <<>>, map_before |-> EmptyMap]

\* the division a caller obtains for (semester, department)
DivisionOf(semester, department) ==
    LET sem_courses_parsed == get_semester_courses(catalog, semester)
    IN  divide_courses_by_session(DeptCourses(sem_courses_parsed, department),
                                  department, sem_courses_parsed, session_map[semester])

\* the effect of one call of divide_courses_by_session on the divider's state
RecordDivision(semester, department) ==
    \E res \in {DivisionOf(semester, department)} :
        /\ session_map' = [session_map EXCEPT ![semester] = res.map]
        /\ division' = [division EXCEPT ![<<semester, department>>] =
                           [called |-> TRUE, pre |-> res.pre, post |-> res.post,
                            map_before |-> session_map[semester]]]

\* ExcelExporter._get_course_details_for_session: divides when the department
\* has rows in the semester
GetCourseDetails(semester, department) ==
    /\ DeptCourses(get_semester_courses(catalog, semester), department) # <<>>
    /\ RecordDivision(semester, department)
    /\ UNCHANGED <<catalog, svars, rvars>>

-----------------------------------------------------------------------------
(* config.py: the weekly grid.  A day is its index in DAYS, a slot its      *)
(* index in the model's TEACHING_SLOTS.  The model keeps the first NumDays  *)
(* days and NumSlots of the 20 slots: the two minor slots and the four      *)
(* slots after them, the two lunch slots and the slot after lunch (slots    *)
(* 1..6 and 12..14 of config.py's list), renumbered 1..NumSlots.            *)

\* days of the grid (of the 5 of DAYS)
NumDays == 2
\* slots of the grid (of the 20 of TEACHING_SLOTS)
NumSlots == 9
\* ceiling put on the attempt budgets of the searches
MaxAttempts == 2
\* number of generate_department_schedule calls in one behaviour
MaxRuns == 2

DAYS == 1..NumDays
TEACHING_SLOTS == 1..NumSlots
\* the lunch slots, at their positions in the model's list
LUNCH_SLOTS == {7, 8}
MINOR_SLOTS == {1, 2} \cap TEACHING_SLOTS
LECTURE_DURATION == 3
TUTORIAL_DURATION == 2
LAB_DURATION == 4
MINOR_DURATION == 2
MINOR_CLASSES_PER_WEEK == 2
MINOR_SUBJECT == "Minor"

SessionSet == {PRE_MID, POST_MID}
Cells == DAYS \X TEACHING_SLOTS
GlobalKeys == DeptSet \X SessionSet
ALL_ELECTIVES == "ALL_ELECTIVES"

\* the attempt budgets of the code, cut to MaxAttempts
Budget(max_attempts) == IF max_attempts < MaxAttempts THEN max_attempts ELSE MaxAttempts
max_attempts_minor == 200
max_attempts_lectures == 2000
max_attempts_electives == 1000
max_attempts_tutorials == 1000
max_attempts_labs == 1000

-----------------------------------------------------------------------------
(* schedule_generator.py: grid and occupancy helpers *)

Free == [course |-> "", class_type |-> "Free"]
LunchBreak == [course |-> "", class_type |-> "LUNCH BREAK"]
Label(course_code, class_type) == [course |-> course_code, class_type |-> class_type]

\* _initialize_schedule
initialize_schedule ==
    [c \in Cells |-> IF c[2] \in LUNCH_SLOTS THEN LunchBreak ELSE Free]

\* the slot lists of config.py the searches read: TEACHING_SLOTS is
\* 1..grid.slots, grid.lunch is LUNCH_SLOTS and grid.minor is MINOR_SLOTS
ConfigGrid == [slots |-> NumSlots, lunch |-> LUNCH_SLOTS, minor |-> MINOR_SLOTS]

\* _get_consecutive_slots over a list of num_slots teaching slots: the slots
\* start..start+duration-1, or none when they run past the end of the list
ConsecutiveOn(num_slots, start_slot, duration) ==
    IF start_slot \in 1..num_slots /\ start_slot + duration - 1 <= num_slots
    THEN start_slot..(start_slot + duration - 1)
    ELSE {}

\* _get_consecutive_slots
get_consecutive_slots(start_slot, duration) ==
    ConsecutiveOn(NumSlots, start_slot, duration)

\* _departments_can_share_slots
departments_can_share_slots(dept_a, dept_b) ==
    dept_a \in {"CSE-A", "CSE-B"} /\ dept_b \in {"CSE-A", "CSE-B"}

\* variant of the global check in which every booking of the semester blocks
is_time_slot_available_global_any(global_slots, day, slots, department, session, semester_id) ==
    ~\E slot \in slots, dept_key \in GlobalKeys :
        <<day, slot>> \in global_slots[semester_id][dept_key]

\* _is_time_slot_available_global, on the registry global_slots
is_time_slot_available_global(global_slots, day, slots, department, session, semester_id) ==
    ~\E slot \in slots, dept_key \in GlobalKeys :
        /\ <<day, slot>> \in global_slots[semester_id][dept_key]
        /\ LET dept_in_slot == dept_key[1]
               session_in_slot == dept_key[2]
           IN  /\ ~departments_can_share_slots(department, dept_in_slot)
               /\ ~(department = dept_in_slot /\ session # session_in_slot)
               /\ ~(department # dept_in_slot)

\* variant that registers the cells under the Pre-Mid key of the department
mark_slots_busy_global_OneKey(global_slots, day, slots, department, session, semester_id) ==
    [global_slots EXCEPT ![semester_id][<<department, PRE_MID>>] =
        @ \cup {<<day, slot>> : slot \in slots}]

\* _mark_slots_busy_global
mark_slots_busy_global(global_slots, day, slots, department, session, semester_id) ==
    [global_slots EXCEPT ![semester_id][<<department, session>>] =
        @ \cup {<<day, slot>> : slot \in slots}]

\* _is_time_slot_available_local
is_time_slot_available_local(schedule, day, slots) ==
    \A slot \in slots : schedule[<<day, slot>>] = Free

\* _mark_slots_busy_local
mark_slots_busy_local(schedule, day, slots, course_code, class_type) ==
    [c \in Cells |-> IF c[1] = day /\ c[2] \in slots
                     THEN Label(course_code, class_type) ELSE schedule[c]]

\* regular_slots, in grid order
RegularSet == TEACHING_SLOTS \ (MINOR_SLOTS \cup LUNCH_SLOTS)
regular_slots ==
    [i \in 1..Cardinality(RegularSet) |->
        CHOOSE x \in RegularSet : Cardinality({y \in RegularSet : y < x}) = i - 1]

\* variant of regular_slots that leaves out the lunch slots only
RegularOn_WithMinor(grid) == (1..grid.slots) \ grid.lunch

\* regular_slots of a search over the slot lists of grid, in grid order
RegularOn(grid) == (1..grid.slots) \ (grid.minor \cup grid.lunch)
RegularSeqOn(grid) ==
    [i \in 1..Cardinality(RegularOn(grid)) |->
        CHOOSE x \in RegularOn(grid) : Cardinality({y \in RegularOn(grid) : y < x}) = i - 1]

\* variant of all_combinations that keeps every start whose duration slots
\* are teaching slots
CombinationsOn_Unfiltered(grid, duration) ==
    {<<day, RegularSeqOn(grid)[i]>> :
        day \in DAYS,
        i \in {j \in 1..(Len(RegularSeqOn(grid)) - duration + 1) :
                 Cardinality(ConsecutiveOn(grid.slots, RegularSeqOn(grid)[j], duration))
                 = duration}}

\* all_combinations of a search over the slot lists of grid: the
\* (day, start_slot), start_slot one of the first len - duration + 1 regular
\* slots, whose duration slots are all regular slots
CombinationsOn(grid, duration) ==
    {<<day, RegularSeqOn(grid)[i]>> :
        day \in DAYS,
        i \in {j \in 1..(Len(RegularSeqOn(grid)) - duration + 1) :
                 LET slots == ConsecutiveOn(grid.slots, RegularSeqOn(grid)[j], duration)
                              \cap RegularOn(grid)
                 IN  Cardinality(slots) = duration}}

\* all_combinations of a search
AllCombinations(duration) == CombinationsOn(ConfigGrid, duration)

\* the cells of a meeting, in slot order
RECURSIVE CellsFrom(_, _, _)
CellsFrom(day, start_slot, duration) ==
    IF duration = 0 THEN <<>>
    ELSE <<<<day, start_slot>>>> \o CellsFrom(day, start_slot + 1, duration - 1)

\* minor_starts of _schedule_minor_classes over the slot lists of grid
MinorStartsOn(grid) ==
    {s \in grid.minor :
        LET seq == ConsecutiveOn(grid.slots, s, MINOR_DURATION)
        IN  Cardinality(seq) = MINOR_DURATION /\ seq \subseteq grid.minor}

\* minor_starts of _schedule_minor_classes
minor_starts == MinorStartsOn(ConfigGrid)

-----------------------------------------------------------------------------
(* ScheduleGenerator: state *)

EmptyFun == [x \in {} |-> x]
CourseKeys == Semesters \X DeptSet \X SessionSet \X Codes

-----------------------------------------------------------------------------
(* schedule_generator.py: rooms.  A classroom row is a record               *)
(*   [name, capacity, type]                                                 *)
(* with capacity 0 when the table gives none.  The tests the code makes on  *)
(* the room name (alphabetic prefix, numeric suffix) and on the room type   *)
(* are tables over the names and types the model uses.  A booking record is *)
(* the tuple (room, department, course code, session).  The room attributes *)
(* of the generator are the fields of one record, rs in the operators.      *)

\* the room names of the model, in string order
RoomOrder == <<"C1", "C2", "H1", "H3", "L1", "L2", "L4">>
RoomNames == {RoomOrder[i] : i \in 1..Len(RoomOrder)}
RoomRank(name) == CHOOSE i \in 1..Len(RoomOrder) : RoomOrder[i] = name

\* split_room of _are_side_by_side
RoomPrefix(name) ==
    CASE name \in {"C1", "C2"} -> "C"
      [] name \in {"H1", "H3"} -> "H"
      [] OTHER -> "L"
RoomNumber(name) ==
    CASE name \in {"C1", "H1", "L1"} -> 1
      [] name \in {"C2", "L2"} -> 2
      [] name = "H3" -> 3
      [] OTHER -> 4

\* 'lab' in room_type, 'software' in room_type, 'hardware' in room_type
IsLabType(type) == type \in {"lab", "software lab", "hardware lab"}
IsSoftwareType(type) == type = "software lab"
IsHardwareType(type) == type = "hardware lab"

\* the sentinel of a course whose meeting_set have no common room
VARIES == "VARIES"
\* no room found (None)
NoRoom == ""

\* the key (capacity, name) of the sorts of __init__
RoomBefore(a, b) ==
    \/ a.capacity < b.capacity
    \/ a.capacity = b.capacity /\ RoomRank(a.name) < RoomRank(b.name)

RECURSIVE SortRooms(_)
\* list.sort(key=lambda x: (x[1], x[0]))
SortRooms(rows) ==
    IF rows = <<>> THEN <<>>
    ELSE LET m == CHOOSE i \in 1..Len(rows) :
                     \A j \in 1..Len(rows) :
                        j # i => \/ RoomBefore(rows[i], rows[j])
                                 \/ ~RoomBefore(rows[j], rows[i]) /\ i < j
         IN  <<rows[m]>> \o SortRooms(RowsAt(rows, (1..Len(rows)) \ {m}))

\* the rooms part of ScheduleGenerator.__init__: the room lists built from
\* dfs['classroom'], sorted by capacity and name, and the empty registries;
\* students is the registered-students column of dfs['course'], which
\* _get_course_enrollment reads
InitRooms(cls_df, students) ==
    [classrooms |-> SortRooms(cls_df),
     lab_rooms |->
         SortRooms(RowsAt(cls_df, {i \in 1..Len(cls_df) : IsLabType(cls_df[i].type)})),
     software_lab_rooms |->
         SortRooms(RowsAt(cls_df, {i \in 1..Len(cls_df) :
                      IsLabType(cls_df[i].type) /\ IsSoftwareType(cls_df[i].type)})),
     hardware_lab_rooms |->
         SortRooms(RowsAt(cls_df, {i \in 1..Len(cls_df) :
                      IsLabType(cls_df[i].type) /\ IsHardwareType(cls_df[i].type)})),
     registered_students |-> students,
     room_occupancy |-> EmptyFun,
     room_bookings |-> EmptyFun,
     assigned_rooms |-> EmptyFun,
     assigned_lab_rooms |-> EmptyFun,
     room_paths |-> EmptyFun]

\* _get_course_enrollment
get_course_enrollment(rs, semester_id, department, course_code) ==
    rs.registered_students[<<semester_id, department, course_code>>]

\* dict.pop(key, None)
Pop(dict, key) == [k \in (DOMAIN dict) \ {key} |-> dict[k]]

\* the keys of room_occupancy and room_bookings: (semester, day, slot)
\* (OccKey_OneSemester: variant of the key that files every semester under
\* the first one)
BucketKeys == {<<s, c[1], c[2]>> : s \in Semesters, c \in Cells}
OccKey_OneSemester(semester_id, cell) == <<TARGET_SEMESTERS[1], cell[1], cell[2]>>
OccKey(semester_id, cell) == <<semester_id, cell[1], cell[2]>>
Booking(room, department, course_code, session) ==
    <<room, department, course_code, session>>

\* (OccupancyAt_Unread: variant of the lookup that finds every bucket empty)
\* room_occupancy.get(occ_key, set()) and room_bookings.get(occ_key, []); the
\* empty sets _mark_slots_busy_global prepares in room_occupancy read the same
\* as no entry and are not kept
OccupancyAt_Unread(occupancy, occ_key) == {}
OccupancyAt(occupancy, occ_key) ==
    IF occ_key \in DOMAIN occupancy THEN occupancy[occ_key] ELSE {}
BookingsAt(bookings, occ_key) ==
    IF occ_key \in DOMAIN bookings THEN bookings[occ_key] ELSE <<>>

\* variant that takes the last position
FirstIn_Last(S) == CHOOSE i \in S : \A j \in S : i >= j

\* the least of a non-empty set of positions
FirstIn(S) == CHOOSE i \in S : \A j \in S : i <= j

\* the first meeting of sorted(set(...))
FirstCell(S) ==
    CHOOSE a \in S : \A b \in S : a[1] < b[1] \/ (a[1] = b[1] /\ a[2] <= b[2])

\* the capacity test of the room loops: a room is passed over when its
\* capacity and the enrolment are both known and the capacity is smaller
Fits(room, needed) == ~(room.capacity # 0 /\ needed # 0 /\ room.capacity < needed)

\* variant of the test that looks at no occupancy
RoomFreeAtAll_Unchecked(occupancy, semester_id, meeting_set, room_name) ==
    room_name \in RoomNames

\* the test of the single-room loop: the room is in use at none of the meetings
RoomFreeAtAll(occupancy, semester_id, meeting_set, room_name) ==
    \A m \in meeting_set : room_name \notin OccupancyAt(occupancy, OccKey(semester_id, m))

\* variant of the booking that writes the occupancy only
Book_OccupancyOnly(rs, occ_key, names, department, course_code, session) ==
    [rs EXCEPT
        !.room_occupancy =
            (occ_key :> (OccupancyAt(@, occ_key) \cup SetOf(names))) @@ @]

\* the rooms of names are added to the occupancy of the bucket and a booking
\* record is appended for each of them, in their order
Book(rs, occ_key, names, department, course_code, session) ==
    [rs EXCEPT
        !.room_occupancy =
            (occ_key :> (OccupancyAt(@, occ_key) \cup SetOf(names))) @@ @,
        !.room_bookings =
            (occ_key :> (BookingsAt(@, occ_key)
                         \o [i \in 1..Len(names) |->
                                Booking(names[i], department, course_code, session)]))
            @@ @]

\* variant of the booking loops that stops after the first meeting
BookMeetings_FirstOnly(rs, semester_id, meeting_set, plan, department, course_code, session) ==
    IF meeting_set = {} THEN rs
    ELSE LET m == FirstCell(meeting_set)
         IN  IF plan[m] = <<>> THEN rs
             ELSE Book(rs, OccKey(semester_id, m), plan[m], department, course_code,
                       session)

RECURSIVE BookMeetings(_, _, _, _, _, _, _)
\* the loops `for day, slot in meetings` that book: plan gives for each
\* meeting the rooms found for it (none: the meeting is left without a room)
BookMeetings(rs, semester_id, meeting_set, plan, department, course_code, session) ==
    IF meeting_set = {} THEN rs
    ELSE LET m == FirstCell(meeting_set)
             booked == IF plan[m] = <<>> THEN rs
                       ELSE Book(rs, OccKey(semester_id, m), plan[m], department,
                                 course_code, session)
         IN  BookMeetings(booked, semester_id, meeting_set \ {m}, plan, department,
                          course_code, session)

\* _allocate_room_for_course; meeting_set is set(scheduled_slots), needed the
\* value of _get_course_enrollment
allocate_room_for_course(rs, semester_id, department, session, course_code, meeting_set, needed) ==
    LET rooms == rs.classrooms
        alloc_key == <<semester_id, department, session, course_code>>
        fitting == {i \in 1..Len(rooms) : Fits(rooms[i], needed)}
        single == {i \in fitting :
                      RoomFreeAtAll(rs.room_occupancy, semester_id, meeting_set,
                                    rooms[i].name)}
        PerMeeting(m) ==
            LET used == OccupancyAt(rs.room_occupancy, OccKey(semester_id, m))
                fit == {i \in fitting : rooms[i].name \notin used}
                any == {i \in 1..Len(rooms) : rooms[i].name \notin used}
            IN  IF fit # {} THEN <<rooms[FirstIn(fit)].name>>
                ELSE IF any # {} THEN <<rooms[FirstIn(any)].name>>
                ELSE <<>>
    IN  IF meeting_set = {} \/ rooms = <<>> THEN rs
        ELSE IF single # {}
        THEN \* one room for all meetings
             [BookMeetings(rs, semester_id, meeting_set,
                           [m \in meeting_set |-> <<rooms[FirstIn(single)].name>>],
                           department, course_code, session)
                 EXCEPT !.assigned_rooms = (alloc_key :> rooms[FirstIn(single)].name) @@ @,
                        !.room_paths = (<<alloc_key, "room">> :> "single") @@ @]
        ELSE \* a room per meeting, final label VARIES
             [BookMeetings(rs, semester_id, meeting_set,
                           [m \in meeting_set |-> PerMeeting(m)],
                           department, course_code, session)
                 EXCEPT !.assigned_rooms = (alloc_key :> VARIES) @@ @,
                        !.room_paths = (<<alloc_key, "room">> :> "per_meeting") @@ @]

\* _are_side_by_side: same prefix, numbers one apart
are_side_by_side(room_a, room_b) ==
    /\ RoomPrefix(room_a) = RoomPrefix(room_b)
    /\ RoomNumber(room_a) - RoomNumber(room_b) \in {1, -1}

\* _pick_lab_pool_for_department
pick_lab_pool_for_department(rs, department) ==
    IF department \in {"CSE-A", "CSE-B", "DSAI"} /\ rs.software_lab_rooms # <<>>
    THEN rs.software_lab_rooms
    ELSE IF department = "ECE" /\ rs.hardware_lab_rooms # <<>>
    THEN rs.hardware_lab_rooms
    ELSE IF rs.lab_rooms # <<>> THEN rs.lab_rooms
    ELSE rs.classrooms

\* the first pair of a set of position pairs (i, j), in the order of the
\* loops over i and j
FirstPair(S) ==
    CHOOSE p \in S : \A q \in S : p[1] < q[1] \/ (p[1] = q[1] /\ p[2] <= q[2])

\* the label of a pair of lab rooms
PairLabel(a, b) == a \o " + " \o b

\* variant of the choice that takes the first free pair of the pool, adjacent
\* or not
ChosenPair_AnyFirst(side_free, any_free) ==
    IF side_free \cup any_free # {} THEN FirstPair(side_free \cup any_free) ELSE <<>>

\* chosen_pair of _allocate_lab_room_for_course: the first free pair of
\* side_pairs, else the first free pair of any_pairs, else None
ChosenPair(side_free, any_free) ==
    IF side_free # {} THEN FirstPair(side_free)
    ELSE IF any_free # {} THEN FirstPair(any_free)
    ELSE <<>>

\* _allocate_lab_room_for_course; meeting_set is set(lab_meetings)
allocate_lab_room_for_course(rs, semester_id, department, session, course_code, meeting_set) ==
    LET pool == pick_lab_pool_for_department(rs, department)
        alloc_key == <<semester_id, department, session, course_code>>
        pairs == {p \in (1..Len(pool)) \X (1..Len(pool)) : p[1] < p[2]}
        side_pairs == {p \in pairs : are_side_by_side(pool[p[1]].name, pool[p[2]].name)}
        any_pairs == pairs \ side_pairs
        pairs_free_for_all(p) ==
            /\ RoomFreeAtAll(rs.room_occupancy, semester_id, meeting_set, pool[p[1]].name)
            /\ RoomFreeAtAll(rs.room_occupancy, semester_id, meeting_set, pool[p[2]].name)
        side_free == {p \in side_pairs : pairs_free_for_all(p)}
        any_free == {p \in any_pairs : pairs_free_for_all(p)}
        chosen_pair == ChosenPair(side_free, any_free)
        NamesOf(p) == IF p = <<>> THEN <<>> ELSE <<pool[p[1]].name, pool[p[2]].name>>
        PerMeeting(m) ==
            LET used == OccupancyAt(rs.room_occupancy, OccKey(semester_id, m))
                side == {p \in side_pairs :
                            pool[p[1]].name \notin used /\ pool[p[2]].name \notin used}
                free_rooms == {i \in 1..Len(pool) : pool[i].name \notin used}
            IN  IF side # {} THEN FirstPair(side)
                ELSE IF Cardinality(free_rooms) >= 2
                THEN <<FirstIn(free_rooms), FirstIn(free_rooms \ {FirstIn(free_rooms)})>>
                ELSE <<>>
        used_labels == {PairLabel(NamesOf(PerMeeting(m))[1], NamesOf(PerMeeting(m))[2]) :
                           m \in {x \in meeting_set : PerMeeting(x) # <<>>}}
    IN  IF meeting_set = {} \/ (rs.lab_rooms = <<>> /\ rs.classrooms = <<>>) THEN rs
        ELSE IF chosen_pair # <<>>
        THEN \* one pair for all meetings
             [BookMeetings(rs, semester_id, meeting_set,
                           [m \in meeting_set |-> NamesOf(chosen_pair)],
                           department, course_code, session)
                 EXCEPT !.assigned_lab_rooms =
                            (alloc_key :> PairLabel(NamesOf(chosen_pair)[1],
                                                    NamesOf(chosen_pair)[2])) @@ @,
                        !.room_paths = (<<alloc_key, "lab">> :> "single") @@ @]
        ELSE \* a pair per meeting
             [BookMeetings(rs, semester_id, meeting_set,
                           [m \in meeting_set |-> NamesOf(PerMeeting(m))],
                           department, course_code, session)
                 EXCEPT !.assigned_lab_rooms =
                            (alloc_key :> (IF Cardinality(used_labels) = 1
                                           THEN CHOOSE l \in used_labels : TRUE
                                           ELSE VARIES)) @@ @,
                        !.room_paths = (<<alloc_key, "lab">> :> "per_meeting") @@ @]

\* the (department, course, session) records of one room in a bucket
EntriesOf(bookings, room_name) ==
    LET rows == RowsAt(bookings, {i \in 1..Len(bookings) : bookings[i][1] = room_name})
    IN  [n \in 1..Len(rows) |-> <<rows[n][2], rows[n][3], rows[n][4]>>]

\* variant of the bucket scan that reports only the first room booked twice
BucketConflicts_FirstOnly(key, bookings) ==
    LET firsts == {i \in 1..Len(bookings) :
                      \A j \in 1..(i - 1) : bookings[j][1] # bookings[i][1]}
        twice == {i \in firsts : Len(EntriesOf(bookings, bookings[i][1])) > 1}
        reported == RowsAt(bookings, IF twice = {} THEN {} ELSE {FirstIn(twice)})
    IN  [n \in 1..Len(reported) |->
            [semester |-> key[1], day |-> key[2], slot |-> key[3],
             room |-> reported[n][1],
             entries |-> EntriesOf(bookings, reported[n][1])]]

\* the body of the loop of validate_room_conflicts over one bucket: one
\* entry for each room with more than one record, in the order of the
\* rooms' first records
BucketConflicts(key, bookings) ==
    LET firsts == {i \in 1..Len(bookings) :
                      \A j \in 1..(i - 1) : bookings[j][1] # bookings[i][1]}
        reported == RowsAt(bookings,
                        {i \in firsts : Len(EntriesOf(bookings, bookings[i][1])) > 1})
    IN  [n \in 1..Len(reported) |->
            [semester |-> key[1], day |-> key[2], slot |-> key[3],
             room |-> reported[n][1],
             entries |-> EntriesOf(bookings, reported[n][1])]]

\* the order in which the buckets are scanned (the order of the keys of the
\* dictionary; the model scans by semester, day, slot)
KeyBefore(a, b) ==
    \/ a[1] < b[1]
    \/ a[1] = b[1] /\ a[2] < b[2]
    \/ a[1] = b[1] /\ a[2] = b[2] /\ a[3] <= b[3]

RECURSIVE ConflictsOver(_, _)
ConflictsOver(room_bookings_map, keys) ==
    IF keys = {} THEN <<>>
    ELSE LET k == CHOOSE a \in keys : \A b \in keys : KeyBefore(a, b)
         IN  BucketConflicts(k, room_bookings_map[k])
             \o ConflictsOver(room_bookings_map, keys \ {k})

\* validate_room_conflicts
validate_room_conflicts(room_bookings_map) ==
    ConflictsOver(room_bookings_map, DOMAIN room_bookings_map)

-----------------------------------------------------------------------------
(* ScheduleGenerator: the call in progress and __init__ *)

\* the locals of generate_department_schedule and of the search it is in
IdleFrame ==
    [pc |-> "idle", semester_id |-> 0, department |-> "", session |-> "",
     schedule |-> initialize_schedule, courses |-> <<>>,
     entry_avoid_days |-> {}, lab_slots |-> <<>>, lec_slots |-> <<>>,
     tut_slots |-> <<>>, scheduled_slots |-> <<>>, attempts |-> 0,
     used_days |-> {}, avoid_days |-> {}, all_combinations |-> {},
     assigned |-> <<>>]

\* main.py has not called validate_room_conflicts yet
NotValidated == [run |-> FALSE, conflicts |-> <<>>]

\* ScheduleGenerator.__init__
InitGenerator ==
    /\ semester_global_slots = [s \in Semesters |-> [k \in GlobalKeys |-> {}]]
    /\ semester_minor_slots = [s \in Semesters |-> <<>>]
    /\ semester_elective_slots =
          [s \in Semesters |-> [c \in Codes \cup {ALL_ELECTIVES} |-> <<>>]]
    /\ scheduled_courses = [k \in CourseKeys |-> {}]
    /\ actual_allocations = EmptyFun
    /\ meetings = EmptyFun
    /\ schedules = EmptyFun
    /\ frame = IdleFrame
    /\ validation = NotValidated

\* the locals at the entry of one of the searches of a course
NewSearch(fr, pc, duration) ==
    [fr EXCEPT !.pc = pc, !.scheduled_slots = <<>>, !.attempts = 0,
               !.used_days = {}, !.avoid_days = fr.entry_avoid_days,
               !.all_combinations = AllCombinations(duration),
               !.assigned = <<>>]

\* elective_flag of _schedule_course
elective_flag(course) ==
    (course.elective \/ ContainsELEC(course.code)) /\ ~ContainsHSS(course.code)

AllocKey(fr) == <<fr.semester_id, fr.department, fr.session, Head(fr.courses).code>>

-----------------------------------------------------------------------------
(* generate_department_schedule: entry, minor block, course loop, return *)

GenerateStart(semester_id, department, session_type) ==
    /\ frame.pc = "idle"
    /\ <<semester_id, department, session_type>> \notin DOMAIN schedules
    /\ Cardinality(DOMAIN schedules) < MaxRuns
    /\ \E sem_courses_parsed \in {get_semester_courses(catalog, semester_id)} :
       \E dept_courses \in {DeptCourses(sem_courses_parsed, department)} :
       \E res \in {DivisionOf(semester_id, department)} :
       \E session_courses \in {IF session_type = PRE_MID THEN res.pre ELSE res.post} :
       \E returned \in {(<<semester_id, department, session_type>> :> initialize_schedule)
                        @@ schedules} :
           IF sem_courses_parsed = <<>> \/ dept_courses = <<>>
           THEN /\ schedules' = returned
                /\ UNCHANGED <<session_map, division, frame>>
           ELSE /\ RecordDivision(semester_id, department)
                /\ IF session_courses = <<>>
                   THEN schedules' = returned /\ UNCHANGED frame
                   ELSE /\ frame' = [IdleFrame EXCEPT
                                        !.pc = "minor",
                                        !.semester_id = semester_id,
                                        !.department = department,
                                        !.session = session_type,
                                        !.courses = session_courses]
                        /\ UNCHANGED schedules
    /\ UNCHANGED <<catalog, semester_global_slots, semester_minor_slots,
                   semester_elective_slots, scheduled_courses,
                   actual_allocations, meetings>>
    /\ UNCHANGED rvars

\* variant of the reuse loop that stops after the first recorded pair
MarkMinor_FirstOnly(fr, global_slots, assigned, n) ==
    LET day == assigned[1][1]
        slots == get_consecutive_slots(assigned[1][2], MINOR_DURATION)
    IN  IF n = 0 THEN [schedule |-> fr.schedule, global |-> global_slots]
        ELSE [schedule |-> mark_slots_busy_local(fr.schedule, day, slots,
                                                 MINOR_SUBJECT, "Minor"),
              global |-> mark_slots_busy_global(global_slots, day, slots,
                                                fr.department, fr.session,
                                                fr.semester_id)]

RECURSIVE MarkMinor(_, _, _, _)
\* the reuse loop of _schedule_minor_classes over the first n recorded pairs;
\* [schedule, global]
MarkMinor(fr, global_slots, assigned, n) ==
    IF n = 0 THEN [schedule |-> fr.schedule, global |-> global_slots]
    ELSE LET before == MarkMinor(fr, global_slots, assigned, n - 1)
             day == assigned[n][1]
             slots == get_consecutive_slots(assigned[n][2], MINOR_DURATION)
         IN  [schedule |-> mark_slots_busy_local(before.schedule, day, slots,
                                                 MINOR_SUBJECT, "Minor"),
              global |-> mark_slots_busy_global(before.global, day, slots,
                                                fr.department, fr.session,
                                                fr.semester_id)]

\* _schedule_minor_classes: one step of it (the skip for semester 1, the
\* reuse of the recorded pairs, one iteration of the search loop, or the
\* end of the loop, which records the pairs)
ScheduleMinorClasses ==
    /\ frame.pc = "minor"
    /\ LET registered == semester_minor_slots[frame.semester_id]
           leave == [frame EXCEPT !.pc = "course", !.attempts = 0, !.assigned = <<>>]
       IN  IF frame.semester_id = 1 \/ minor_starts = {}
           THEN /\ frame' = leave
                /\ UNCHANGED <<semester_global_slots, semester_minor_slots>>
           ELSE IF registered # <<>>
           THEN LET m == MarkMinor(frame, semester_global_slots, registered,
                                   Len(registered))
                IN  /\ frame' = [leave EXCEPT !.schedule = m.schedule]
                    /\ semester_global_slots' = m.global
                    /\ UNCHANGED semester_minor_slots
           ELSE IF /\ Len(frame.assigned) < MINOR_CLASSES_PER_WEEK
                   /\ frame.attempts < Budget(max_attempts_minor)
           THEN \E day \in DAYS, start \in minor_starts :
                   LET slots == get_consecutive_slots(start, MINOR_DURATION)
                   IN  IF /\ Cardinality(slots) = MINOR_DURATION
                          /\ is_time_slot_available_local(frame.schedule, day, slots)
                          /\ is_time_slot_available_global(
                                 semester_global_slots, day, slots,
                                 frame.department, frame.session, frame.semester_id)
                       THEN /\ frame' =
                                 [frame EXCEPT
                                     !.attempts = @ + 1,
                                     !.schedule = mark_slots_busy_local(
                                         @, day, slots, MINOR_SUBJECT, "Minor"),
                                     !.assigned = Append(@, <<day, start>>)]
                            /\ semester_global_slots' =
                                 mark_slots_busy_global(
                                     semester_global_slots, day, slots,
                                     frame.department, frame.session,
                                     frame.semester_id)
                            /\ UNCHANGED semester_minor_slots
                       ELSE /\ frame' = [frame EXCEPT !.attempts = @ + 1]
                            /\ UNCHANGED <<semester_global_slots, semester_minor_slots>>
           ELSE /\ frame' = leave
                /\ semester_minor_slots' =
                      IF frame.assigned # <<>>
                      THEN [semester_minor_slots EXCEPT ![frame.semester_id] = frame.assigned]
                      ELSE semester_minor_slots
                /\ UNCHANGED semester_global_slots
    /\ UNCHANGED <<catalog, session_map, division, semester_elective_slots,
                   scheduled_courses, actual_allocations, meetings, schedules>>
    /\ UNCHANGED rvars

\* the course loop reaches a course: the entry of _schedule_course
BeginCourse ==
    /\ frame.pc = "course"
    /\ frame.courses # <<>>
    /\ frame' = NewSearch([frame EXCEPT
                              !.entry_avoid_days = scheduled_courses[AllocKey(frame)],
                              !.lab_slots = <<>>, !.lec_slots = <<>>,
                              !.tut_slots = <<>>],
                          "labs", LAB_DURATION)
    /\ UNCHANGED <<catalog, session_map, division, semester_global_slots,
                   semester_minor_slots, semester_elective_slots,
                   scheduled_courses, actual_allocations, meetings, schedules>>
    /\ UNCHANGED rvars

\* the course loop is over: generate_department_schedule returns the grid
ReturnSchedule ==
    /\ frame.pc = "course"
    /\ frame.courses = <<>>
    /\ schedules' = (<<frame.semester_id, frame.department, frame.session>>
                        :> frame.schedule) @@ schedules
    /\ frame' = IdleFrame
    /\ UNCHANGED <<catalog, session_map, division, semester_global_slots,
                   semester_minor_slots, semester_elective_slots,
                   scheduled_courses, actual_allocations, meetings>>
    /\ UNCHANGED rvars

-----------------------------------------------------------------------------
(* _schedule_course: the searches of one course, labs, lectures, tutorials *)

\* variant of available_combos without the preference for unused days
AvailableCombos_Any(fr) == fr.all_combinations

\* available_combos of one loop iteration
AvailableCombos(fr) ==
    LET preferred == {c \in fr.all_combinations :
                         c[1] \notin fr.used_days /\ c[1] \notin fr.avoid_days}
    IN  IF preferred # {} THEN preferred ELSE fr.all_combinations

\* variant of the loop condition without the attempt budget
SearchGoesOn_Unbudgeted(fr, per_week, duration, max_attempts) ==
    /\ Len(fr.scheduled_slots) < per_week * duration
    /\ fr.all_combinations # {}

\* the loop condition of _schedule_labs, _schedule_lectures and
\* _schedule_tutorials (with the break on an empty candidate list)
SearchGoesOn(fr, per_week, duration, max_attempts) ==
    /\ Len(fr.scheduled_slots) < per_week * duration
    /\ fr.attempts < Budget(max_attempts)
    /\ fr.all_combinations # {}

\* variant of the loop iteration in which a failed try is not counted
Attempt_Uncounted(fr, global_slots, combo, duration, class_type, is_elective) ==
    LET day == combo[1]
        start_slot == combo[2]
        slots == get_consecutive_slots(start_slot, duration)
        code == Head(fr.courses).code
    IN  IF /\ is_time_slot_available_local(fr.schedule, day, slots)
           /\ is_time_slot_available_global(global_slots, day, slots, fr.department,
                                            fr.session, fr.semester_id)
        THEN [frame |-> [fr EXCEPT
                            !.attempts = @ + 1,
                            !.schedule = mark_slots_busy_local(@, day, slots, code,
                                                               class_type),
                            !.scheduled_slots = @ \o CellsFrom(day, start_slot, duration),
                            !.assigned = IF is_elective THEN Append(@, combo) ELSE @,
                            !.used_days = @ \cup {day},
                            !.avoid_days = @ \cup {day},
                            !.all_combinations = @ \ {combo}],
              global |-> mark_slots_busy_global(global_slots, day, slots, fr.department,
                                                fr.session, fr.semester_id)]
        ELSE [frame |-> fr, global |-> global_slots]

\* one loop iteration with the candidate combo chosen: [frame, global];
\* the elective search also appends the pair to assigned
Attempt(fr, global_slots, combo, duration, class_type, is_elective) ==
    LET day == combo[1]
        start_slot == combo[2]
        slots == get_consecutive_slots(start_slot, duration)
        code == Head(fr.courses).code
    IN  IF /\ is_time_slot_available_local(fr.schedule, day, slots)
           /\ is_time_slot_available_global(global_slots, day, slots, fr.department,
                                            fr.session, fr.semester_id)
        THEN [frame |-> [fr EXCEPT
                            !.attempts = @ + 1,
                            !.schedule = mark_slots_busy_local(@, day, slots, code,
                                                               class_type),
                            !.scheduled_slots = @ \o CellsFrom(day, start_slot, duration),
                            !.assigned = IF is_elective THEN Append(@, combo) ELSE @,
                            !.used_days = @ \cup {day},
                            !.avoid_days = @ \cup {day},
                            !.all_combinations = @ \ {combo}],
              global |-> mark_slots_busy_global(global_slots, day, slots, fr.department,
                                                fr.session, fr.semester_id)]
        ELSE [frame |-> [fr EXCEPT !.attempts = @ + 1], global |-> global_slots]

\* _schedule_labs, one loop iteration or the return
ScheduleLabs ==
    /\ frame.pc = "labs"
    /\ LET course == Head(frame.courses)
       IN  IF course.P > 0 /\ SearchGoesOn(frame, course.P, LAB_DURATION, max_attempts_labs)
           THEN \E combo \in AvailableCombos(frame) :
                   LET r == Attempt(frame, semester_global_slots, combo, LAB_DURATION, "Lab",
                                    FALSE)
                   IN  frame' = r.frame /\ semester_global_slots' = r.global
           ELSE /\ frame' = NewSearch([frame EXCEPT !.lab_slots = frame.scheduled_slots],
                                      "lectures", LECTURE_DURATION)
                /\ UNCHANGED semester_global_slots
    /\ UNCHANGED <<catalog, session_map, division, semester_minor_slots,
                   semester_elective_slots, scheduled_courses, actual_allocations,
                   meetings, schedules>>
    /\ UNCHANGED rvars

\* _schedule_lectures, one loop iteration or the return
ScheduleLectures ==
    /\ frame.pc = "lectures"
    /\ ~elective_flag(Head(frame.courses))
    /\ LET course == Head(frame.courses)
       IN  IF course.L > 0
              /\ SearchGoesOn(frame, course.L, LECTURE_DURATION, max_attempts_lectures)
           THEN \E combo \in AvailableCombos(frame) :
                   LET r == Attempt(frame, semester_global_slots, combo,
                                    LECTURE_DURATION, "Lecture", FALSE)
                   IN  frame' = r.frame /\ semester_global_slots' = r.global
           ELSE /\ frame' = NewSearch([frame EXCEPT !.lec_slots = frame.scheduled_slots],
                                      "tutorials", TUTORIAL_DURATION)
                /\ UNCHANGED semester_global_slots
    /\ UNCHANGED <<catalog, session_map, division, semester_minor_slots,
                   semester_elective_slots, scheduled_courses, actual_allocations,
                   meetings, schedules>>
    /\ UNCHANGED rvars

RECURSIVE MarkElective_Checked(_, _, _, _)
\* variant of the reuse loop that skips a pair whose cells are not free in
\* the grid
MarkElective_Checked(fr, global_slots, assigned, n) ==
    IF n = 0
    THEN [schedule |-> fr.schedule, global |-> global_slots, scheduled_slots |-> <<>>]
    ELSE LET before == MarkElective_Checked(fr, global_slots, assigned, n - 1)
             day == assigned[n][1]
             start == assigned[n][2]
             slots == get_consecutive_slots(start, LECTURE_DURATION)
         IN  IF day \in fr.avoid_days
                \/ ~is_time_slot_available_local(before.schedule, day, slots)
             THEN before
             ELSE [schedule |-> mark_slots_busy_local(before.schedule, day, slots,
                                                      Head(fr.courses).code, "Lecture"),
                   global |-> mark_slots_busy_global(before.global, day, slots,
                                                     fr.department, fr.session,
                                                     fr.semester_id),
                   scheduled_slots |-> before.scheduled_slots
                                       \o CellsFrom(day, start, Cardinality(slots))]

RECURSIVE MarkElective(_, _, _, _)
\* the reuse loop of _schedule_elective_classes over the first n recorded
\* pairs: a pair on a day of avoid_days is skipped, every other pair is
\* marked; [schedule, global, scheduled_slots]
MarkElective(fr, global_slots, assigned, n) ==
    IF n = 0
    THEN [schedule |-> fr.schedule, global |-> global_slots, scheduled_slots |-> <<>>]
    ELSE LET before == MarkElective(fr, global_slots, assigned, n - 1)
             day == assigned[n][1]
             start == assigned[n][2]
             slots == get_consecutive_slots(start, LECTURE_DURATION)
         IN  IF day \in fr.avoid_days THEN before
             ELSE [schedule |-> mark_slots_busy_local(before.schedule, day, slots,
                                                      Head(fr.courses).code, "Lecture"),
                   global |-> mark_slots_busy_global(before.global, day, slots,
                                                     fr.department, fr.session,
                                                     fr.semester_id),
                   scheduled_slots |-> before.scheduled_slots
                                       \o CellsFrom(day, start, Cardinality(slots))]

\* variant of the lookup that reads the entry of the course only
ReusedPairs_Own(common, own) == own

\* the recorded pairs _schedule_elective_classes reuses: those of the common
\* key of the semester, else those of the course's own key
ReusedPairs(common, own) == IF common # <<>> THEN common ELSE own

\* the loop condition of the search of _schedule_elective_classes
ElectiveSearchGoesOn(fr, elective_per_week) ==
    /\ Len(fr.assigned) < elective_per_week
    /\ fr.attempts < Budget(max_attempts_electives)
    /\ fr.all_combinations # {}

\* _schedule_elective_classes: the reuse of the common pairs, one iteration
\* of the search loop, or the end of the loop, which records the pairs
ScheduleElectiveClasses ==
    /\ frame.pc = "lectures"
    /\ elective_flag(Head(frame.courses))
    /\ LET course == Head(frame.courses)
           registry == semester_elective_slots[frame.semester_id]
           common == registry[ALL_ELECTIVES]
           own == registry[course.code]
           reused == ReusedPairs(common, own)
           leave(lec_slots) == NewSearch([frame EXCEPT !.lec_slots = lec_slots],
                                         "tutorials", TUTORIAL_DURATION)
       IN  IF course.L = 0
           THEN /\ frame' = leave(<<>>)
                /\ UNCHANGED <<semester_global_slots, semester_elective_slots>>
           ELSE IF reused # <<>>
           THEN LET m == MarkElective(frame, semester_global_slots, reused, Len(reused))
                IN  /\ frame' = [leave(m.scheduled_slots) EXCEPT !.schedule = m.schedule]
                    /\ semester_global_slots' = m.global
                    /\ semester_elective_slots' =
                          [semester_elective_slots EXCEPT
                              ![frame.semester_id][ALL_ELECTIVES] = reused,
                              ![frame.semester_id][course.code] = reused]
           ELSE IF ElectiveSearchGoesOn(frame, course.L)
           THEN /\ \E combo \in AvailableCombos(frame) :
                      LET r == Attempt(frame, semester_global_slots, combo,
                                       LECTURE_DURATION, "Lecture", TRUE)
                      IN  frame' = r.frame /\ semester_global_slots' = r.global
                /\ UNCHANGED semester_elective_slots
           ELSE /\ frame' = leave(frame.scheduled_slots)
                /\ semester_elective_slots' =
                      IF frame.assigned # <<>>
                      THEN [semester_elective_slots EXCEPT
                               ![frame.semester_id][ALL_ELECTIVES] = frame.assigned,
                               ![frame.semester_id][course.code] = frame.assigned]
                      ELSE semester_elective_slots
                /\ UNCHANGED semester_global_slots
    /\ UNCHANGED <<catalog, session_map, division, semester_minor_slots,
                   scheduled_courses, actual_allocations, meetings, schedules>>
    /\ UNCHANGED rvars

\* _schedule_tutorials, one loop iteration or the return
ScheduleTutorials ==
    /\ frame.pc = "tutorials"
    /\ LET course == Head(frame.courses)
       IN  IF course.T > 0
              /\ SearchGoesOn(frame, course.T, TUTORIAL_DURATION, max_attempts_tutorials)
           THEN \E combo \in AvailableCombos(frame) :
                   LET r == Attempt(frame, semester_global_slots, combo,
                                    TUTORIAL_DURATION, "Tutorial", FALSE)
                   IN  frame' = r.frame /\ semester_global_slots' = r.global
           ELSE /\ frame' = [frame EXCEPT !.pc = "finish",
                                          !.tut_slots = frame.scheduled_slots]
                /\ UNCHANGED semester_global_slots
    /\ UNCHANGED <<catalog, session_map, division, semester_minor_slots,
                   semester_elective_slots, scheduled_courses, actual_allocations,
                   meetings, schedules>>
    /\ UNCHANGED rvars

\* the days of a list of cells
DaysOf(slots) == {slots[i][1] : i \in 1..Len(slots)}

\* variant of the test that allocates rooms for every course
SkipRoomAllocation_Never(course) == FALSE

\* skip_room_allocation = elective_flag or is_hss
SkipRoomAllocation(course) == elective_flag(course) \/ ContainsHSS(course.code)

\* the end of _schedule_course: the days and the counts are recorded
FinishCourse ==
    /\ frame.pc = "finish"
    /\ LET alloc_key == AllocKey(frame)
           scheduled_slots == frame.lab_slots \o frame.lec_slots \o frame.tut_slots
           success_counts ==
               [lectures |-> Len(frame.lec_slots) \div LECTURE_DURATION,
                tutorials |-> Len(frame.tut_slots) \div TUTORIAL_DURATION,
                labs |-> Len(frame.lab_slots) \div LAB_DURATION]
       IN  /\ scheduled_courses' =
                 [scheduled_courses EXCEPT ![alloc_key] = @ \cup DaysOf(scheduled_slots)]
           /\ meetings' = (alloc_key :> [lab_meetings |-> frame.lab_slots,
                                         lec_meetings |-> frame.lec_slots,
                                         tut_meetings |-> frame.tut_slots]) @@ meetings
           /\ actual_allocations' = (alloc_key :> success_counts) @@ actual_allocations
    /\ LET course == Head(frame.courses)
           skip_room_allocation == SkipRoomAllocation(course)
           lab_meetings == SetOf(frame.lab_slots)
           lt_meetings == SetOf(frame.lec_slots \o frame.tut_slots)
           needed == get_course_enrollment(room_state, frame.semester_id,
                                           frame.department, course.code)
           LabsDone(rs) ==
               IF lab_meetings = {} THEN rs
               ELSE IF skip_room_allocation
               THEN [rs EXCEPT !.assigned_lab_rooms = Pop(@, AllocKey(frame))]
               ELSE allocate_lab_room_for_course(
                        rs, frame.semester_id, frame.department, frame.session,
                        course.code, lab_meetings)
           RoomsDone(rs) ==
               IF lt_meetings = {} THEN rs
               ELSE IF skip_room_allocation
               THEN [rs EXCEPT !.assigned_rooms = Pop(@, AllocKey(frame))]
               ELSE allocate_room_for_course(
                        rs, frame.semester_id, frame.department, frame.session,
                        course.code, lt_meetings, needed)
       IN  \E labs \in {LabsDone(room_state)} : room_state' = RoomsDone(labs)
    /\ frame' = [frame EXCEPT !.pc = "course", !.courses = Tail(@)]
    /\ UNCHANGED <<catalog, session_map, division, semester_global_slots,
                   semester_minor_slots, semester_elective_slots, schedules,
                   validation>>

-----------------------------------------------------------------------------
(* The slot allocator as a state machine: generate_department_schedule is   *)
(* called for (semester, department, session) triples in any order, each    *)
(* triple once, over one of the input tables of ScheduleCatalogs.           *)

Row(code, dept, sem, credits, elective, L, T, P) ==
    [code |-> code, dept |-> dept, sem |-> sem, credits |-> credits,
     elective |-> elective, L |-> L, T |-> T, P |-> P]

ScheduleCatalogs ==
    { \* two electives of one department, the first with two lectures a week
      << Row("OE1", "CSE-A", 3, 3, TRUE, 2, 0, 0),
         Row("ELEC1", "CSE-A", 3, 3, FALSE, 1, 0, 0) >>,
      \* one elective with a lab, taken by two departments
      << Row("ELEC1", "DSAI", 3, 3, FALSE, 1, 0, 1),
         Row("ELEC1", "ECE", 3, 3, FALSE, 1, 0, 1) >>,
      \* a regular course in the two CSE sections
      << Row("CS1", "CSE-A", 3, 3, FALSE, 1, 0, 0),
         Row("CS1", "CSE-B", 3, 3, FALSE, 1, 0, 0) >>,
      \* regular courses of one department in semesters 1 and 3, one with a
      \* tutorial and a lab
      << Row("CS1", "DSAI", 1, 3, FALSE, 1, 0, 0),
         Row("CS2", "DSAI", 3, 3, FALSE, 1, 1, 1) >>,
      \* a single half-semester course: the Post-Mid list of its department
      \* is empty
      << Row("CS1", "DSAI", 3, 2, FALSE, 1, 0, 0) >>,
      \* an HSS course with a lecture and a lab
      << Row("HSS1", "ECE", 3, 3, FALSE, 1, 0, 1) >> }

\* the classroom table and the enrolment the slot allocator runs with: a
\* classroom, two adjacent software labs and two hardware labs, all of
\* capacity 2, and 2 students in every course
ScheduleClassroom ==
    << [name |-> "C1", capacity |-> 2, type |-> "classroom"],
       [name |-> "L1", capacity |-> 2, type |-> "software lab"],
       [name |-> "L2", capacity |-> 2, type |-> "software lab"],
       [name |-> "H1", capacity |-> 2, type |-> "hardware lab"],
       [name |-> "H3", capacity |-> 2, type |-> "hardware lab"] >>
ScheduleRegistered == [k \in Semesters \X DeptSet \X Codes |-> 2]

Init ==
    /\ catalog \in ScheduleCatalogs
    /\ room_state = InitRooms(ScheduleClassroom, ScheduleRegistered)
    /\ session_map = [s \in Semesters |-> EmptyMap]
    /\ division = [k \in Semesters \X DeptSet |-> NoDivision]
    /\ InitGenerator

Next ==
    \/ \E semester_id \in Semesters, department \in DeptSet, session_type \in SessionSet :
          GenerateStart(semester_id, department, session_type)
    \/ ScheduleMinorClasses
    \/ BeginCourse
    \/ ScheduleLabs
    \/ ScheduleLectures
    \/ ScheduleElectiveClasses
    \/ ScheduleTutorials
    \/ FinishCourse
    \/ ReturnSchedule

Spec == Init /\ [][Next]_vars

\* the steps of a generate_department_schedule call in progress: the
\* interpreter runs the statements of the call one after the other, so a
\* step that stays possible is taken
RunStep ==
    \/ ScheduleMinorClasses
    \/ BeginCourse
    \/ ScheduleLabs
    \/ ScheduleLectures
    \/ ScheduleElectiveClasses
    \/ ScheduleTutorials
    \/ FinishCourse
    \/ ReturnSchedule

SpecRun == Init /\ [][Next]_vars /\ WF_vars(RunStep)

-----------------------------------------------------------------------------
(* The input family of the divider: every table of at most MaxRows rows,    *)
(* with (department, code) unique, drawn from the rows of RowKinds           *)

RowKinds ==
    << [code |-> "CS1",    credits |-> 2, elective |-> FALSE,
        depts |-> {"CSE-A", "CSE-B", "DSAI", "ECE"}],
       [code |-> "CS1",    credits |-> 3, elective |-> FALSE,
        depts |-> {"CSE-A", "DSAI"}],
       [code |-> "CS2",    credits |-> 2, elective |-> FALSE,
        depts |-> {"CSE-A", "CSE-B", "DSAI"}],
       [code |-> "ELEC1",  credits |-> 2, elective |-> FALSE,
        depts |-> {"CSE-A", "DSAI"}],
       [code |-> "ELEC1",  credits |-> 3, elective |-> FALSE,
        depts |-> {"CSE-A"}],
       [code |-> "OE1",    credits |-> 2, elective |-> TRUE,
        depts |-> {"CSE-A", "CSE-B", "DSAI"}],
       [code |-> "HSS1",   credits |-> 2, elective |-> FALSE,
        depts |-> {"CSE-A", "DSAI", "ECE"}],
       [code |-> "HSS1",   credits |-> 3, elective |-> FALSE,
        depts |-> {"CSE-B", "ECE"}],
       [code |-> "MINOR1", credits |-> 2, elective |-> FALSE,
        depts |-> {"CSE-A", "DSAI"}] >>

DivideSemester == TARGET_SEMESTERS[2]

UniverseRow(k, d) ==
    [code |-> RowKinds[k].code, dept |-> DEPARTMENTS[d], sem |-> DivideSemester,
     credits |-> RowKinds[k].credits, elective |-> RowKinds[k].elective,
     L |-> 1, T |-> 0, P |-> 0]

\* the universe as a table, department by department
Universe ==
    LET product == [i \in 1..(Len(RowKinds) * Len(DEPARTMENTS)) |->
                       <<((i - 1) % Len(RowKinds)) + 1, ((i - 1) \div Len(RowKinds)) + 1>>]
        offered == {i \in DOMAIN product :
                       DEPARTMENTS[product[i][2]] \in RowKinds[product[i][1]].depts}
        pairs == RowsAt(product, offered)
    IN  [i \in 1..Len(pairs) |-> UniverseRow(pairs[i][1], pairs[i][2])]

UniqueKeys(df) ==
    \A i, j \in 1..Len(df) : (df[i].dept = df[j].dept /\ df[i].code = df[j].code) => i = j

RECURSIVE SubsetsUpTo(_, _)
\* the subsets of S with at most n elements
SubsetsUpTo(S, n) ==
    IF n = 0 THEN {{}}
    ELSE LET smaller == SubsetsUpTo(S, n - 1)
         IN  smaller \cup {T \cup {x} : T \in smaller, x \in S}

DivideCatalogs ==
    {df \in {RowsAt(Universe, idx) : idx \in SubsetsUpTo(DOMAIN Universe, MaxRows)} :
        UniqueKeys(df)}

InitDivide ==
    /\ catalog \in DivideCatalogs
    /\ room_state = InitRooms(<<>>, [k \in Semesters \X DeptSet \X Codes |-> 0])
    /\ session_map = [s \in Semesters |-> EmptyMap]
    /\ division = [k \in Semesters \X DeptSet |-> NoDivision]
    /\ InitGenerator

NextDivide == \E s \in Semesters, d \in DeptSet : GetCourseDetails(s, d)

SpecDivide == InitDivide /\ [][NextDivide]_vars

-----------------------------------------------------------------------------
(* The divider as export_semester_timetable drives it: the departments of   *)
(* a semester are taken in the order of DEPARTMENTS, and the division of a  *)
(* department is asked for again by every later caller                      *)
(* (generate_department_schedule and _get_course_details_for_session, once  *)
(* per session).                                                            *)

\* variant of the loop order in which any department may come first
EarlierDivided_AnyOrder(semester, department) == TRUE

\* `for department in DEPARTMENTS`: the departments before this one that
\* have rows in the semester have been divided
EarlierDivided(semester, department) ==
    \A i, j \in 1..Len(DEPARTMENTS) :
        /\ i < j
        /\ DEPARTMENTS[j] = department
        /\ DeptCourses(get_semester_courses(catalog, semester), DEPARTMENTS[i]) # <<>>
        => division[<<semester, DEPARTMENTS[i]>>].called

\* the first division of a department in a semester
FirstDivision(semester, department) ==
    /\ ~division[<<semester, department>>].called
    /\ EarlierDivided(semester, department)
    /\ GetCourseDetails(semester, department)

\* a later call of divide_courses_by_session for the department
Redivision(semester, department) ==
    /\ division[<<semester, department>>].called
    /\ GetCourseDetails(semester, department)

NextRedivide ==
    \E s \in Semesters, d \in DeptSet :
        \/ FirstDivision(s, d)
        \/ Redivision(s, d)

SpecRedivide == InitDivide /\ [][NextRedivide]_vars

-----------------------------------------------------------------------------
(* The room allocator as a state machine: _allocate_room_for_course and     *)
(* _allocate_lab_room_for_course are called as _schedule_course calls them, *)
(* each course key once for its lectures and once for its labs, over the    *)
(* classroom tables of ClassroomTables; main.py then calls                  *)
(* validate_room_conflicts.  Room names are unique in a table.              *)

\* number of allocation calls in one behaviour
MaxRoomCalls == 2
\* largest number of registered students of a course
MaxEnrollment == 2

ClassroomTables ==
    { \* no classroom table
      <<>>,
      \* one classroom
      << [name |-> "C1", capacity |-> 2, type |-> "classroom"] >>,
      \* a small and a large classroom
      << [name |-> "C2", capacity |-> 2, type |-> "classroom"],
         [name |-> "C1", capacity |-> 1, type |-> "classroom"] >>,
      \* a classroom without capacity and three software labs, two adjacent
      << [name |-> "C1", capacity |-> 0, type |-> "classroom"],
         [name |-> "L1", capacity |-> 2, type |-> "software lab"],
         [name |-> "L2", capacity |-> 2, type |-> "software lab"],
         [name |-> "L4", capacity |-> 2, type |-> "software lab"] >>,
      \* labs only: two adjacent software labs, the first a small one, and
      \* two labs of no stated kind
      << [name |-> "L1", capacity |-> 1, type |-> "software lab"],
         [name |-> "L2", capacity |-> 2, type |-> "software lab"],
         [name |-> "L4", capacity |-> 2, type |-> "lab"],
         [name |-> "H1", capacity |-> 2, type |-> "lab"] >>,
      ScheduleClassroom }

\* every course of the table has the same number of registered students
RegisteredTables ==
    {[k \in Semesters \X DeptSet \X Codes |-> n] : n \in 0..MaxEnrollment}

\* the courses the allocator is called for, and the meetings of one lecture
\* and of one lab
RoomCourseKeys == Semesters \X {"CSE-A", "ECE"} \X {PRE_MID} \X {"CS1"}
LectureMeetings ==
    {SetOf(CellsFrom(c[1], c[2], LECTURE_DURATION)) : c \in AllCombinations(LECTURE_DURATION)}
LabMeetings ==
    {SetOf(CellsFrom(c[1], c[2], LAB_DURATION)) : c \in AllCombinations(LAB_DURATION)}

InitRoomAllocator ==
    /\ catalog = <<>>
    /\ session_map = [s \in Semesters |-> EmptyMap]
    /\ division = [k \in Semesters \X DeptSet |-> NoDivision]
    /\ InitGenerator
    /\ \E cls_df \in ClassroomTables, students \in RegisteredTables :
          room_state = InitRooms(cls_df, students)

\* _schedule_course calls _allocate_room_for_course with the lecture and
\* tutorial meetings of a course
AllocateRoomForCourse(key, scheduled_slots) ==
    /\ ~validation.run
    /\ Cardinality(DOMAIN room_state.room_paths) < MaxRoomCalls
    /\ <<key, "room">> \notin DOMAIN room_state.room_paths
    /\ room_state' = allocate_room_for_course(
                         room_state, key[1], key[2], key[3], key[4], scheduled_slots,
                         get_course_enrollment(room_state, key[1], key[2], key[4]))
    /\ UNCHANGED <<dvars, svars, validation>>

\* _schedule_course calls _allocate_lab_room_for_course with the lab meetings
\* of a course
AllocateLabRoomForCourse(key, lab_meetings) ==
    /\ ~validation.run
    /\ Cardinality(DOMAIN room_state.room_paths) < MaxRoomCalls
    /\ <<key, "lab">> \notin DOMAIN room_state.room_paths
    /\ room_state' = allocate_lab_room_for_course(
                         room_state, key[1], key[2], key[3], key[4], lab_meetings)
    /\ UNCHANGED <<dvars, svars, validation>>

\* main.py: conflicts = validate_room_conflicts(), after the semesters
ValidateRoomConflicts ==
    /\ ~validation.run
    /\ validation' = [run |-> TRUE,
                      conflicts |-> validate_room_conflicts(room_state.room_bookings)]
    /\ UNCHANGED <<dvars, svars, room_state>>

NextRoomAllocator ==
    \/ \E key \in RoomCourseKeys, scheduled_slots \in LectureMeetings :
          AllocateRoomForCourse(key, scheduled_slots)
    \/ \E key \in RoomCourseKeys, lab_meetings \in LabMeetings :
          AllocateLabRoomForCourse(key, lab_meetings)
    \/ ValidateRoomConflicts

SpecRooms == InitRoomAllocator /\ [][NextRoomAllocator]_vars

-----------------------------------------------------------------------------
(* validate_room_conflicts as a function of room_bookings: the registry is  *)
(* any one with at most MaxBookings records in two buckets.                 *)

\* number of booking records in the registry
MaxBookings == 4

\* the sequences over S of length at most n
SeqsUpTo(S, n) == UNION {[1..k -> S] : k \in 0..n}

BookingRecords ==
    {Booking(room, e[1], e[2], e[3]) :
        room \in {"C1", "C2"},
        e \in {<<"CSE-A", "CS1", PRE_MID>>, <<"ECE", "CS2", PRE_MID>>}}

\* the same day and slot in the two semesters
ValidatedBuckets == {OccKey(s, <<1, 3>>) : s \in Semesters}

\* the registries of at most MaxBookings records: the first bucket holds k
\* of them and the other bucket at most MaxBookings - k; a bucket without
\* records is absent
BookingRegistries ==
    UNION {
        {[b \in {x \in ValidatedBuckets :
                    IF x = first THEN head # <<>> ELSE rest # <<>>} |->
             IF b = first THEN head ELSE rest] :
            head \in [1..k -> BookingRecords],
            rest \in SeqsUpTo(BookingRecords, MaxBookings - k)} :
        k \in 0..MaxBookings, first \in {OccKey(1, <<1, 3>>)}}

InitValidate ==
    /\ catalog = <<>>
    /\ session_map = [s \in Semesters |-> EmptyMap]
    /\ division = [k \in Semesters \X DeptSet |-> NoDivision]
    /\ InitGenerator
    /\ \E registry \in BookingRegistries :
          room_state =
              [InitRooms(ScheduleClassroom, ScheduleRegistered) EXCEPT
                  !.room_bookings = registry,
                  !.room_occupancy =
                      [k \in DOMAIN registry |->
                          {registry[k][i][1] : i \in 1..Len(registry[k])}]]

NextValidate == ValidateRoomConflicts

SpecValidate == InitValidate /\ [][NextValidate]_vars

-----------------------------------------------------------------------------
(* The candidate universe of a search as a function of the slot lists of    *)
(* config.py: a search builds all_combinations (lines 272-282, 541-551,     *)
(* 594-603; minor_starts, lines 222-227) and commits one of them.  The     *)
(* slot lists are those of GridFamily, config.py's own among them.          *)

\* length of TEACHING_SLOTS in config.py
MaxGridSlots == 20

\* the slot lists: up to MaxGridSlots teaching slots, the first two of them
\* minor slots, two adjacent lunch slots anywhere after them (or none)
GridFamily ==
    {[slots |-> n, lunch |-> {p, p + 1} \cap (1..n), minor |-> {1, 2}] :
        n \in 3..MaxGridSlots, p \in 3..MaxGridSlots}

\* the component kinds and their durations
ComponentKinds ==
    {[class_type |-> "Lecture", duration |-> LECTURE_DURATION],
     [class_type |-> "Tutorial", duration |-> TUTORIAL_DURATION],
     [class_type |-> "Lab", duration |-> LAB_DURATION],
     [class_type |-> "Minor", duration |-> MINOR_DURATION]}

\* [(day, slot) for slot in slots]
CellsOver(day, slots) ==
    [i \in 1..Cardinality(slots) |->
        <<day, CHOOSE x \in slots : Cardinality({y \in slots : y < x}) = i - 1>>]

InitCombos ==
    /\ catalog = <<>>
    /\ session_map = [s \in Semesters |-> EmptyMap]
    /\ division = [k \in Semesters \X DeptSet |-> NoDivision]
    /\ semester_global_slots = [s \in Semesters |-> [k \in GlobalKeys |-> {}]]
    /\ semester_minor_slots = [s \in Semesters |-> <<>>]
    /\ semester_elective_slots =
          [s \in Semesters |-> [c \in Codes \cup {ALL_ELECTIVES} |-> <<>>]]
    /\ scheduled_courses = [k \in CourseKeys |-> {}]
    /\ actual_allocations = EmptyFun
    /\ meetings = EmptyFun
    /\ schedules = EmptyFun
    /\ validation = NotValidated
    /\ room_state = InitRooms(<<>>, EmptyFun)
    /\ \E grid \in GridFamily, component \in ComponentKinds :
          frame = [pc |-> "build", grid |-> grid,
                   class_type |-> component.class_type,
                   duration |-> component.duration,
                   all_combinations |-> {}, scheduled_slots |-> <<>>]

\* the search builds its candidates: all_combinations, or for the minor
\* block the days and minor_starts
BuildCombinations ==
    /\ frame.pc = "build"
    /\ frame' = [frame EXCEPT
                    !.pc = "search",
                    !.all_combinations =
                        IF frame.class_type = "Minor"
                        THEN DAYS \X MinorStartsOn(frame.grid)
                        ELSE CombinationsOn(frame.grid, frame.duration)]
    /\ UNCHANGED <<dvars, semester_global_slots, semester_minor_slots,
                   semester_elective_slots, scheduled_courses, actual_allocations,
                   meetings, schedules, rvars>>

\* the search draws a candidate whose slots are available and commits it
CommitCombination ==
    /\ frame.pc = "search"
    /\ \E combo \in frame.all_combinations :
          \E slots \in {ConsecutiveOn(frame.grid.slots, combo[2], frame.duration)} :
             /\ Cardinality(slots) = frame.duration
             /\ frame' = [frame EXCEPT
                             !.pc = "done",
                             !.scheduled_slots = @ \o CellsOver(combo[1], slots)]
    /\ UNCHANGED <<dvars, semester_global_slots, semester_minor_slots,
                   semester_elective_slots, scheduled_courses, actual_allocations,
                   meetings, schedules, rvars>>

NextCombos == BuildCombinations \/ CommitCombination

SpecCombos == InitCombos /\ [][NextCombos]_vars

-----------------------------------------------------------------------------
(* One call of _schedule_course from the states it can be entered in: a     *)
(* course with up to MaxPerWeek meetings of each component a week, a grid   *)
(* that earlier courses have written to, and the days recorded for the      *)
(* course so far.                                                           *)

\* the largest number of meetings of a component a week
MaxPerWeek == 2

\* what earlier courses of the call to generate_department_schedule have
\* placed: nothing, a lab that fills the first day, or a lecture on the
\* second day
EarlierPlacements ==
    {<<>>,
     <<[day |-> 1, start_slot |-> 3, duration |-> LAB_DURATION, class_type |-> "Lab"]>>,
     <<[day |-> NumDays, start_slot |-> 3, duration |-> LECTURE_DURATION,
        class_type |-> "Lecture"]>>}

RECURSIVE PlaceEarlier(_, _)
\* [schedule, global] after the first n of the earlier placements
PlaceEarlier(placed, n) ==
    IF n = 0
    THEN [schedule |-> initialize_schedule, global |-> [s \in Semesters |-> [k \in GlobalKeys |-> {}]]]
    ELSE LET before == PlaceEarlier(placed, n - 1)
             slots == get_consecutive_slots(placed[n].start_slot, placed[n].duration)
         IN  [schedule |-> mark_slots_busy_local(before.schedule, placed[n].day, slots,
                                                 "CS1", placed[n].class_type),
              global |-> mark_slots_busy_global(before.global, placed[n].day, slots,
                                                "DSAI", PRE_MID, 3)]

InitCourse ==
    /\ catalog = <<>>
    /\ session_map = [s \in Semesters |-> EmptyMap]
    /\ division = [k \in Semesters \X DeptSet |-> NoDivision]
    /\ semester_minor_slots = [s \in Semesters |-> <<>>]
    /\ semester_elective_slots =
          [s \in Semesters |-> [c \in Codes \cup {ALL_ELECTIVES} |-> <<>>]]
    /\ scheduled_courses = [k \in CourseKeys |-> {}]
    /\ actual_allocations = EmptyFun
    /\ meetings = EmptyFun
    /\ schedules = EmptyFun
    /\ validation = NotValidated
    /\ room_state = InitRooms(<<>>, EmptyFun)
    /\ \E placed \in EarlierPlacements, days \in SUBSET DAYS :
       \E L \in 0..MaxPerWeek, T \in 0..MaxPerWeek, P \in 0..MaxPerWeek :
       \E earlier \in {PlaceEarlier(placed, Len(placed))} :
          /\ semester_global_slots = earlier.global
          /\ frame = NewSearch([IdleFrame EXCEPT
                                   !.semester_id = 3, !.department = "DSAI",
                                   !.session = PRE_MID,
                                   !.schedule = earlier.schedule,
                                   !.courses = <<Row("CS2", "DSAI", 3, 3, FALSE, L, T, P)>>,
                                   !.entry_avoid_days = days],
                                "labs", LAB_DURATION)

NextCourse == ScheduleLabs \/ ScheduleLectures \/ ScheduleTutorials

SpecCourse == InitCourse /\ [][NextCourse]_vars

-----------------------------------------------------------------------------
(* The slot allocator over a table in which every shared registry is        *)
(* written: a half-semester course shared by a CSE section and DSAI, and an *)
(* elective of each, in a semester with a minor block.                      *)

SharedCatalogs ==
    { << Row("CS1", "CSE-A", 3, 2, FALSE, 1, 0, 0),
         Row("CS2", "CSE-A", 3, 2, FALSE, 1, 0, 0),
         Row("CS1", "DSAI", 3, 2, FALSE, 1, 0, 0),
         Row("ELEC1", "CSE-A", 3, 3, FALSE, 1, 0, 1),
         Row("OE1", "DSAI", 3, 3, TRUE, 1, 1, 0) >> }

InitShared ==
    /\ catalog \in SharedCatalogs
    /\ room_state = InitRooms(ScheduleClassroom, ScheduleRegistered)
    /\ session_map = [s \in Semesters |-> EmptyMap]
    /\ division = [k \in Semesters \X DeptSet |-> NoDivision]
    /\ InitGenerator

SpecShared == InitShared /\ [][Next]_vars

-----------------------------------------------------------------------------
(* Generation runs in one process: main.py builds a TimetableGenerator,     *)
(* whose setup_environment loads the input and creates a new                *)
(* ScheduleGenerator; a second run in the same process does so again.  The  *)
(* attributes of the ScheduleGenerator belong to the new object; the        *)
(* session map of the divider is an attribute of the class ExcelLoader.     *)

\* a half-semester course shared by a CSE section and DSAI, and an elective
RunCatalogs ==
    { << Row("CS1", "CSE-A", 3, 2, FALSE, 1, 0, 0),
         Row("CS1", "DSAI", 3, 2, FALSE, 1, 0, 0),
         Row("OE1", "DSAI", 3, 3, TRUE, 1, 0, 0) >> }

InitRuns ==
    /\ catalog \in RunCatalogs
    /\ room_state = InitRooms(ScheduleClassroom, ScheduleRegistered)
    /\ session_map = [s \in Semesters |-> EmptyMap]
    /\ division = [k \in Semesters \X DeptSet |-> NoDivision]
    /\ InitGenerator

\* setup_environment of a further run: the same input is loaded again and
\* ScheduleGenerator.__init__ runs; nothing assigns
\* ExcelLoader._two_credit_course_session_map
SetupEnvironment ==
    /\ frame.pc = "idle"
    /\ semester_global_slots' = [s \in Semesters |-> [k \in GlobalKeys |-> {}]]
    /\ semester_minor_slots' = [s \in Semesters |-> <<>>]
    /\ semester_elective_slots' =
          [s \in Semesters |-> [c \in Codes \cup {ALL_ELECTIVES} |-> <<>>]]
    /\ scheduled_courses' = [k \in CourseKeys |-> {}]
    /\ actual_allocations' = EmptyFun
    /\ meetings' = EmptyFun
    /\ schedules' = EmptyFun
    /\ frame' = IdleFrame
    /\ validation' = NotValidated
    /\ room_state' = InitRooms(ScheduleClassroom, ScheduleRegistered)
    /\ division' = [k \in Semesters \X DeptSet |-> NoDivision]
    /\ UNCHANGED <<catalog, session_map>>

NextRuns == Next \/ SetupEnvironment

SpecRuns == InitRuns /\ [][NextRuns]_vars

-----------------------------------------------------------------------------
(* The outcome of a course: _schedule_course returns fully_scheduled and    *)
(* partially_scheduled, computed from success_counts (the counts stored in  *)
(* actual_allocations), and generate_department_schedule files the course   *)
(* under the first of fully, partially, failed that applies.                *)

fully_scheduled(success_counts, course) ==
    /\ success_counts.lectures = course.L
    /\ success_counts.tutorials = course.T
    /\ success_counts.labs = course.P

partially_scheduled(success_counts) ==
    \/ success_counts.lectures > 0
    \/ success_counts.tutorials > 0
    \/ success_counts.labs > 0

Outcome(success_counts, course) ==
    IF fully_scheduled(success_counts, course) THEN "fully_scheduled"
    ELSE IF partially_scheduled(success_counts) THEN "partially_scheduled"
    ELSE "failed"

-----------------------------------------------------------------------------
(* Vocabulary of the slot allocator's claims *)

Triples == Semesters \X DeptSet \X SessionSet
TripleOf(key) == <<key[1], key[2], key[3]>>
NoRepeat(slots) == \A i, j \in 1..Len(slots) : slots[i] = slots[j] => i = j

\* the cells covered by recorded (day, start) pairs of the given duration
Cover(pairs, duration) ==
    {c \in Cells : \E i \in 1..Len(pairs) :
        c[1] = pairs[i][1] /\ c[2] \in pairs[i][2]..(pairs[i][2] + duration - 1)}

\* the committed placements of the courses _schedule_course has finished
Components == {"lab_meetings", "lec_meetings", "tut_meetings"}
Placements == (DOMAIN meetings) \X Components
PlacedCells(pl) == SetOf(meetings[pl[1]][pl[2]])

\* the row under which a course key was scheduled
CourseRow(key) ==
    LET list == Concat(division[<<key[1], key[2]>>].pre, division[<<key[1], key[2]>>].post)
    IN  list[CHOOSE i \in 1..Len(list) : list[i].code = key[4]]
IsElectiveKey(key) == elective_flag(CourseRow(key))

MinorCellsOf(schedule) == {c \in Cells : schedule[c].class_type = "Minor"}

-----------------------------------------------------------------------------
\* C1 as stated, two lectures of elective courses at the common elective
\* pairs left aside: the cells of any two committed placements (lab,
\* lecture, tutorial of any courses, the minor block) of one (semester,
\* department, session) are disjoint, and no placement holds a cell twice.
C1_DisjointPlacements ==
    /\ \A p, q \in Placements :
          ( /\ TripleOf(p[1]) = TripleOf(q[1])
            /\ p # q
            /\ ~( /\ p[2] = "lec_meetings" /\ q[2] = "lec_meetings"
                  /\ IsElectiveKey(p[1]) /\ IsElectiveKey(q[1]) ) )
          => PlacedCells(p) \cap PlacedCells(q) = {}
    /\ \A p \in Placements :
          /\ NoRepeat(meetings[p[1]][p[2]])
          /\ TripleOf(p[1]) \in DOMAIN schedules
             => PlacedCells(p) \cap MinorCellsOf(schedules[TripleOf(p[1])]) = {}

\* C2: an elective course with at least one lecture a week that is
\* scheduled when the common elective pairs of its semester are recorded
\* leaves _schedule_elective_classes with its lecture cells exactly at the
\* slots those pairs cover, and the pairs stay as recorded; hence any two
\* departments or sessions that hold lecture cells of electives of one
\* semester hold the same cells.
C2_AtCommonPairs ==
    LET course == Head(frame.courses)
        common == semester_elective_slots[frame.semester_id][ALL_ELECTIVES]
    IN  ( /\ frame.pc = "lectures"
          /\ elective_flag(course)
          /\ course.L >= 1
          /\ common # <<>>
          /\ frame'.pc = "tutorials" )
        => /\ SetOf(frame'.lec_slots) = Cover(common, LECTURE_DURATION)
           /\ semester_elective_slots'[frame.semester_id][ALL_ELECTIVES] = common

C2_SameCells ==
    \A k1, k2 \in DOMAIN meetings :
        ( /\ k1[1] = k2[1]
          /\ IsElectiveKey(k1) /\ IsElectiveKey(k2)
          /\ meetings[k1].lec_meetings # <<>>
          /\ meetings[k2].lec_meetings # <<>> )
        => /\ SetOf(meetings[k1].lec_meetings) = SetOf(meetings[k2].lec_meetings)
           /\ SetOf(meetings[k1].lec_meetings)
                = Cover(semester_elective_slots[k1[1]][ALL_ELECTIVES], LECTURE_DURATION)

C3_MinorAtRegistry ==
    \A t \in DOMAIN schedules :
        MinorCellsOf(schedules[t]) # {}
        => MinorCellsOf(schedules[t]) = Cover(semester_minor_slots[t[1]], MINOR_DURATION)

\* C3 witness: two grids of one semester, the second built from the
\* registry, both with the minor block on two days.
C3_Witness ==
    \E t1, t2 \in DOMAIN schedules :
        /\ t1 # t2 /\ t1[1] = t2[1]
        /\ Len(semester_minor_slots[t1[1]]) = MINOR_CLASSES_PER_WEEK
        /\ MinorCellsOf(schedules[t1]) = Cover(semester_minor_slots[t1[1]], MINOR_DURATION)
        /\ MinorCellsOf(schedules[t2]) = MinorCellsOf(schedules[t1])

\* C4 as stated: the counts recorded for a course do not exceed its
\* Lectures_Per_Week, Tutorials_Per_Week and Labs_Per_Week, elective or not.
C4_CountsWithinRequired ==
    \A key \in DOMAIN actual_allocations :
        /\ actual_allocations[key].lectures <= CourseRow(key).L
        /\ actual_allocations[key].tutorials <= CourseRow(key).T
        /\ actual_allocations[key].labs <= CourseRow(key).P

\* the booking test of the claims: some slot of slots is registered in the
\* semester under the department and the session
BookedUnder(day, slots, department, session, semester_id) ==
    \E slot \in slots :
        <<day, slot>> \in semester_global_slots[semester_id][<<department, session>>]

\* the slot lists the allocator hands to the global check: the runs of
\* consecutive slots of the length of a lecture, tutorial, lab or one slot
SlotRuns ==
    {get_consecutive_slots(start_slot, duration) :
        start_slot \in TEACHING_SLOTS, duration \in 1..LAB_DURATION} \ {{}}

\* C5 as stated: the global check returns False exactly when some slot of
\* slots is registered under the same department and the same session, for
\* every department.
C5_BlockedExactlyBySameDeptSession ==
    \A semester_id \in Semesters, department \in DeptSet, session \in SessionSet,
       day \in DAYS, slots \in SlotRuns :
        is_time_slot_available_global(semester_global_slots, day, slots, department,
                                      session, semester_id)
        = ~BookedUnder(day, slots, department, session, semester_id)

\* the registry with every booking of one department erased
WithoutDept(global_slots, department) ==
    [s \in Semesters |->
        [k \in GlobalKeys |-> IF k[1] = department THEN {} ELSE global_slots[s][k]]]

PairedSection(department) == IF department = "CSE-A" THEN "CSE-B" ELSE "CSE-A"

\* C6: a cell booked by one CSE section in a semester, in whatever session,
\* does not block the other section: on every slot run made of such cells
\* the global check made for the other section, in whatever session,
\* answers as it would with the bookings of the first section erased, and
\* it passes unless the other section itself holds a slot of the run in
\* that session.
C6_PairedSectionNeverBlocked ==
    \A department \in {"CSE-A", "CSE-B"}, semester_id \in Semesters :
        LET paired == PairedSection(department)
            erased == WithoutDept(semester_global_slots, paired)
            booked == UNION {semester_global_slots[semester_id][<<paired, other>>] :
                               other \in SessionSet}
        IN  \A day \in DAYS, slots \in SlotRuns :
               (\A slot \in slots : <<day, slot>> \in booked)
               => \A session \in SessionSet :
                     /\ is_time_slot_available_global(semester_global_slots, day, slots,
                                                     department, session, semester_id)
                        = is_time_slot_available_global(erased, day, slots, department,
                                                        session, semester_id)
                     /\ ~BookedUnder(day, slots, department, session, semester_id)
                        => is_time_slot_available_global(semester_global_slots, day,
                                                         slots, department, session,
                                                         semester_id)

\* C6 witness: CSE-B holds a lecture at cells that CSE-A had booked in the
\* same semester and session.
C6_Witness ==
    \E ka, kb \in DOMAIN meetings :
        /\ ka[2] = "CSE-A" /\ kb[2] = "CSE-B"
        /\ ka[1] = kb[1] /\ ka[3] = kb[3]
        /\ meetings[ka].lec_meetings # <<>>
        /\ meetings[ka].lec_meetings = meetings[kb].lec_meetings
        /\ SetOf(meetings[ka].lec_meetings)
             \subseteq semester_global_slots[ka[1]][<<"CSE-A", ka[3]>>]
                       \cap semester_global_slots[kb[1]][<<"CSE-B", kb[3]>>]

-----------------------------------------------------------------------------
(* Vocabulary of the divider's claims, read off the input table only *)

OtherDepts == {"DSAI", "ECE"}
GroupOf(dept) == IF dept \in CSE_SECTIONS THEN "CSE" ELSE dept

\* the rows of a department's input list, Minor entries removed
InputRows(semester, department) ==
    Filter(DeptCourses(get_semester_courses(catalog, semester), department),
           LAMBDA r : ~ContainsMinor(r.code))
InputCodes(semester, department) == CodesOf(InputRows(semester, department))
SemesterCodes(semester) == CodesOf(get_semester_courses(catalog, semester))

\* the groups among CSE, DSAI, ECE in which a code occurs
GroupsOf(semester, code) ==
    LET rows == get_semester_courses(catalog, semester)
    IN  {GroupOf(rows[i].dept) : i \in {j \in 1..Len(rows) : rows[j].code = code}}

RowIsElective(r) == (r.elective \/ ContainsELEC(r.code)) /\ ~ContainsHSS(r.code)
RowIsHSS(r) == ContainsHSS(r.code)
RowIsHalfSem(r) == ~RowIsElective(r) /\ ~RowIsHSS(r) /\ r.credits <= 2

Opposite(x) == IF x = "Pre" THEN "Post" ELSE "Pre"
ListOf(div, x) == IF x = "Pre" THEN div.pre ELSE div.post

Called == {k \in DOMAIN division : division[k].called}

-----------------------------------------------------------------------------
C9_HalfSplit ==
    \A k \in Called :
        LET div == division[k]
            rows == get_semester_courses(catalog, k[1])
            half == sort_values(Filter(InputRows(k[1], k[2]), RowIsHalfSem))
            n == Len(half)
            ceil == (n + 1) \div 2
        IN  (\A i \in 1..Len(rows) : rows[i].dept = k[2]) =>
              \A i \in 1..n :
                 IF i <= ceil
                 THEN half[i].code \in CodesOf(div.pre) \ CodesOf(div.post)
                 ELSE half[i].code \in CodesOf(div.post) \ CodesOf(div.pre)

\* C10 as stated: every elective and every HSS course of the department is
\* in the Pre-Mid list and in the Post-Mid list.
C10_ElectiveHssBoth ==
    \A k \in Called :
        LET rows == InputRows(k[1], k[2])
        IN  \A i \in 1..Len(rows) :
               (RowIsElective(rows[i]) \/ RowIsHSS(rows[i]))
               => /\ rows[i].code \in CodesOf(division[k].pre)
                  /\ rows[i].code \in CodesOf(division[k].post)

-----------------------------------------------------------------------------
\* a regular row: not elective, not HSS (Minor entries are not input rows)
RowIsRegular(r) == ~RowIsElective(r) /\ ~RowIsHSS(r)

\* C11 as stated: a regular course of the department with credit > 2 is in
\* both returned lists, one with credit <= 2 is in exactly one of them.
C11_RegularByCredit ==
    \A k \in Called :
        LET div == division[k]
            rows == InputRows(k[1], k[2])
        IN  \A i \in 1..Len(rows) :
               RowIsRegular(rows[i]) =>
                  IF rows[i].credits > 2
                  THEN /\ rows[i].code \in CodesOf(div.pre)
                       /\ rows[i].code \in CodesOf(div.post)
                  ELSE (rows[i].code \in CodesOf(div.pre))
                       # (rows[i].code \in CodesOf(div.post))

\* the elective codes of a returned division: the codes of the rows of
\* either list that are elective by the column or by the ELEC marker
ElectiveCodesOf(div) ==
    LET list == Concat(div.pre, div.post)
    IN  {list[i].code : i \in {j \in 1..Len(list) : RowIsElective(list[j])}}

\* C18 as stated: in a semester, the elective codes in the lists returned
\* for CSE-A are the elective codes in the lists returned for CSE-B.
C18_SameElectiveSet ==
    \A s \in Semesters :
        (<<s, "CSE-A">> \in Called /\ <<s, "CSE-B">> \in Called)
        => ElectiveCodesOf(division[<<s, "CSE-A">>])
           = ElectiveCodesOf(division[<<s, "CSE-B">>])

\* C19 as stated: in a semester, the lists returned for CSE-A and for CSE-B
\* hold the same codes in Pre-Mid and the same codes in Post-Mid.
C19_SameSectionLists ==
    \A s \in Semesters :
        (<<s, "CSE-A">> \in Called /\ <<s, "CSE-B">> \in Called)
        => /\ CodesOf(division[<<s, "CSE-A">>].pre) = CodesOf(division[<<s, "CSE-B">>].pre)
           /\ CodesOf(division[<<s, "CSE-A">>].post) = CodesOf(division[<<s, "CSE-B">>].post)

-----------------------------------------------------------------------------
\* C16 as stated: a grid that generate_department_schedule returns for a
\* department that has courses in the semester, when the minor registry of
\* the semester is assigned, holds the minor block exactly at the
\* registered pairs.
C16_GridHasMinor ==
    \A t \in Triples :
        ( /\ t \notin DOMAIN schedules
          /\ t \in DOMAIN schedules'
          /\ DeptCourses(get_semester_courses(catalog, t[1]), t[2]) # <<>>
          /\ semester_minor_slots[t[1]] # <<>> )
        => MinorCellsOf(schedules'[t]) = Cover(semester_minor_slots[t[1]], MINOR_DURATION)

C16_MinorInEveryGrid == [][C16_GridHasMinor]_vars


\* the triple of the call in progress, and a call that has returned its grid
\* with every course of its session list processed
FrameTriple == <<frame.semester_id, frame.department, frame.session>>
Processed(t) ==
    /\ t \in DOMAIN schedules
    /\ LET div == division[<<t[1], t[2]>>]
           list == IF t[3] = PRE_MID THEN div.pre ELSE div.post
       IN  \A code \in CodesOf(list) :
              <<t[1], t[2], t[3], code>> \in DOMAIN actual_allocations

\* the step that ends a call registers the grid of the call's triple
ReturnsGrid ==
    (frame.pc # "idle" /\ frame'.pc = "idle") => FrameTriple \in DOMAIN schedules'

\* C17: every call of generate_department_schedule that has started returns
\* a grid for its (semester, department, session), with every course of the
\* session list processed, whatever the searches of its courses placed: the
\* call in progress ends, the step that ends it registers the grid of its
\* triple, and a grid in the registry of returned grids always has all its
\* courses processed.
C17_RunCompletes ==
    /\ [](\A t \in DOMAIN schedules : Processed(t))
    /\ [][ReturnsGrid]_vars
    /\ (frame.pc # "idle") ~> (frame.pc = "idle")

\* a call has returned a grid in which a course is short of a tutorial, and
\* a later call has returned its grid as well
C17_Witness ==
    \E key \in DOMAIN actual_allocations :
        /\ TripleOf(key) \in DOMAIN schedules
        /\ actual_allocations[key].tutorials < CourseRow(key).T
        /\ \E t \in DOMAIN schedules : t # TripleOf(key)


\* the step about to be taken applies a populated registry of the semester:
\* the minor pairs, or the elective pairs (common or of the course)
AppliesRegistry ==
    \/ /\ frame.pc = "minor"
       /\ frame.semester_id # 1
       /\ semester_minor_slots[frame.semester_id] # <<>>
    \/ /\ frame.pc = "lectures"
       /\ elective_flag(Head(frame.courses))
       /\ Head(frame.courses).L > 0
       /\ \/ semester_elective_slots[frame.semester_id][ALL_ELECTIVES] # <<>>
          \/ semester_elective_slots[frame.semester_id][Head(frame.courses).code] # <<>>

\* C20 as stated, the lecture of another elective at the common pairs left
\* aside: a step that applies a populated registry writes only cells that
\* are Free in the grid or hold a lecture; a cell that holds a lab, a
\* tutorial or the minor block keeps it.
C20_ReuseWritesFreeCells ==
    AppliesRegistry =>
        \A c \in Cells :
            frame'.schedule[c] # frame.schedule[c] =>
                \/ frame.schedule[c] = Free
                \/ frame.schedule[c].class_type = "Lecture"

C20_ReuseNeverOverwrites == [][C20_ReuseWritesFreeCells]_vars


-----------------------------------------------------------------------------
(* Vocabulary of the room claims *)

\* the number of booking records of a room in a bucket
CountIn(bookings, room_name) ==
    Cardinality({i \in 1..Len(bookings) : bookings[i][1] = room_name})

\* the positions of the reported conflicts of a room at a bucket
ReportedAt(occ_key, room_name) ==
    {i \in 1..Len(validation.conflicts) :
        /\ validation.conflicts[i].semester = occ_key[1]
        /\ validation.conflicts[i].day = occ_key[2]
        /\ validation.conflicts[i].slot = occ_key[3]
        /\ validation.conflicts[i].room = room_name}

\* every allocation so far booked one room, or one pair, for all meetings
SinglePathsOnly ==
    \A k \in DOMAIN room_state.room_paths : room_state.room_paths[k] = "single"

\* C12: when every course that received rooms got one room for all its
\* lecture meetings, or one pair for all its lab meetings, the list that
\* validate_room_conflicts returns after the run is empty.
C12_SinglePathsNoConflict ==
    (validation.run /\ SinglePathsOnly) => validation.conflicts = <<>>

\* two courses that share a bucket were given rooms on the single paths, and
\* the validator has run
C12_Witness ==
    /\ validation.run
    /\ SinglePathsOnly
    /\ \E k \in DOMAIN room_state.room_bookings :
          \E i, j \in 1..Len(room_state.room_bookings[k]) :
             room_state.room_bookings[k][i][2] # room_state.room_bookings[k][j][2]

\* C13: for every bucket and every room, validate_room_conflicts reports
\* exactly one entry when the room has more than one record in the bucket,
\* and the entry lists all the (department, course, session) records of the
\* room in the bucket; it reports none when the room has at most one record.
C13_OneEntryPerBookedTwice ==
    validation.run =>
        \A k \in BucketKeys, room_name \in RoomNames :
            LET bookings == BookingsAt(room_state.room_bookings, k)
                records == {i \in 1..Len(bookings) : bookings[i][1] = room_name}
                hits == ReportedAt(k, room_name)
            IN  IF CountIn(bookings, room_name) > 1
                THEN /\ Cardinality(hits) = 1
                     /\ \A h \in hits :
                           LET entries == validation.conflicts[h].entries
                           IN  /\ Len(entries) = Cardinality(records)
                               /\ \A i \in records :
                                     Cardinality({n \in 1..Len(entries) :
                                         entries[n] = <<bookings[i][2], bookings[i][3],
                                                        bookings[i][4]>>})
                                     = Cardinality({j \in records :
                                          <<bookings[j][2], bookings[j][3], bookings[j][4]>>
                                          = <<bookings[i][2], bookings[i][3], bookings[i][4]>>})
                ELSE hits = {}

\* the validator has run on a registry with a bucket in which two rooms are
\* booked twice, and both are reported
C13_Witness ==
    /\ validation.run
    /\ \E k \in DOMAIN room_state.room_bookings :
          /\ CountIn(room_state.room_bookings[k], "C1") > 1
          /\ CountIn(room_state.room_bookings[k], "C2") > 1
          /\ ReportedAt(k, "C1") # {}
          /\ ReportedAt(k, "C2") # {}

\* C14 as stated: after the run, every room with more than one booking
\* record at one day and slot, counted over the buckets of all semesters, is
\* in the list validate_room_conflicts returns.
C14_AcrossSemesters ==
    validation.run =>
        \A room_name \in RoomNames, c \in Cells :
            (\E s1, s2 \in Semesters :
                /\ CountIn(BookingsAt(room_state.room_bookings, OccKey(s1, c)), room_name) > 0
                /\ CountIn(BookingsAt(room_state.room_bookings, OccKey(s2, c)), room_name) > 0
                /\ \/ s1 # s2
                   \/ CountIn(BookingsAt(room_state.room_bookings, OccKey(s1, c)),
                              room_name) > 1)
            => \E i \in 1..Len(validation.conflicts) :
                  /\ validation.conflicts[i].room = room_name
                  /\ validation.conflicts[i].day = c[1]
                  /\ validation.conflicts[i].slot = c[2]

\* C15 as stated: a course with registered students that
\* _allocate_room_for_course gave one room has a room whose capacity in the
\* classroom list is at least the number of registered students.
C15_SingleRoomHoldsEnrollment ==
    \A key \in DOMAIN room_state.assigned_rooms :
        LET needed == get_course_enrollment(room_state, key[1], key[2], key[4])
        IN  (room_state.assigned_rooms[key] # VARIES /\ needed > 0)
            => \E i \in 1..Len(room_state.classrooms) :
                  /\ room_state.classrooms[i].name = room_state.assigned_rooms[key]
                  /\ room_state.classrooms[i].capacity >= needed

-----------------------------------------------------------------------------
(* Vocabulary of the candidate claims *)

\* the starts a component of the kind may take on the slot lists of grid:
\* its duration slots are teaching slots, all minor slots for the minor
\* block, none of them a lunch or minor slot for the other kinds
AdmissibleStarts(grid, class_type, duration) ==
    {s \in 1..grid.slots :
        /\ s + duration - 1 <= grid.slots
        /\ \A x \in s..(s + duration - 1) :
              IF class_type = "Minor" THEN x \in grid.minor
              ELSE x \notin grid.lunch /\ x \notin grid.minor}

\* C21: the candidates of a search are exactly the (day, start) whose
\* duration slots are consecutive teaching slots of one day, none of them a
\* lunch or minor slot for lectures, tutorials and labs (all of them minor
\* slots for the minor block); a committed instance occupies exactly its
\* duration of consecutive slots of one day, the slots of such a start.
C21_CandidatesAreRegularRuns ==
    /\ frame.pc \in {"search", "done"} =>
          frame.all_combinations =
              DAYS \X AdmissibleStarts(frame.grid, frame.class_type, frame.duration)
    /\ frame.pc = "done" =>
          /\ Len(frame.scheduled_slots) = frame.duration
          /\ \A i \in 1..Len(frame.scheduled_slots) :
                /\ frame.scheduled_slots[i][1] = frame.scheduled_slots[1][1]
                /\ frame.scheduled_slots[i][2] = frame.scheduled_slots[1][2] + i - 1
                /\ frame.scheduled_slots[i][2] \in 1..frame.grid.slots
                /\ frame.class_type # "Minor" =>
                      /\ frame.scheduled_slots[i][2] \notin frame.grid.lunch
                      /\ frame.scheduled_slots[i][2] \notin frame.grid.minor

\* on the slot lists of config.py a lab is committed in the four slots
\* before lunch, and the lab candidates leave out the starts that run into
\* the lunch break
C21_Witness ==
    /\ frame.pc = "done"
    /\ frame.grid = [slots |-> MaxGridSlots, lunch |-> {12, 13}, minor |-> {1, 2}]
    /\ frame.class_type = "Lab"
    /\ frame.scheduled_slots[1][2] = 8
    /\ \A day \in DAYS : <<day, 9>> \notin frame.all_combinations


\* the grids of a state: the one under construction and the returned ones
GridsOf == {frame.schedule} \cup {schedules[t] : t \in DOMAIN schedules}

\* C22: in every grid every lunch cell holds LUNCH BREAK and every minor
\* cell holds Free or the Minor label: no lecture, tutorial, lab or
\* elective label is written to a lunch or minor cell, by a search or by
\* the reuse of recorded minor and elective pairs.
C22_LunchAndMinorCells ==
    \A schedule \in GridsOf :
        \A c \in Cells :
            /\ c[2] \in LUNCH_SLOTS => schedule[c] = LunchBreak
            /\ c[2] \in MINOR_SLOTS =>
                  schedule[c] \in {Free, Label(MINOR_SUBJECT, "Minor")}

\* two returned grids of one semester hold the minor block, placed by the
\* search in the first and by the reuse of the recorded pairs in the second,
\* and the second a class that ends in the slot before the lunch break
C22_Witness ==
    \E t1, t2 \in DOMAIN schedules :
        /\ t1 # t2 /\ t1[1] = t2[1]
        /\ MinorCellsOf(schedules[t1]) # {}
        /\ MinorCellsOf(schedules[t2]) = MinorCellsOf(schedules[t1])
        /\ \E c \in Cells :
              /\ c[2] + 1 \in LUNCH_SLOTS
              /\ schedules[t2][c].class_type \in {"Lecture", "Tutorial", "Lab"}


\* a fresh search of the course at the head of the list is running
FreshSearchRuns ==
    /\ frame.pc \in {"labs", "lectures", "tutorials"}
    /\ frame.courses # <<>>
    /\ \/ /\ frame.pc = "labs"
          /\ Head(frame.courses).P > 0
          /\ SearchGoesOn(frame, Head(frame.courses).P, LAB_DURATION, max_attempts_labs)
       \/ /\ frame.pc = "lectures"
          /\ ~elective_flag(Head(frame.courses))
          /\ Head(frame.courses).L > 0
          /\ SearchGoesOn(frame, Head(frame.courses).L, LECTURE_DURATION,
                          max_attempts_lectures)
       \/ /\ frame.pc = "tutorials"
          /\ Head(frame.courses).T > 0
          /\ SearchGoesOn(frame, Head(frame.courses).T, TUTORIAL_DURATION,
                          max_attempts_tutorials)

\* C23 as stated: while a fresh search of a course runs, the shared slots
\* already recorded for it are in the grid: the minor block of the semester
\* at the recorded minor pairs and, for an elective with lectures, a lecture
\* at every recorded common elective pair on a day the course has not
\* avoided, during the search for the labs of the elective too.
C23_SharedSlotsBeforeSearch ==
    FreshSearchRuns =>
        /\ frame.semester_id # 1 =>
              \A c \in Cover(semester_minor_slots[frame.semester_id], MINOR_DURATION) :
                 frame.schedule[c].class_type = "Minor"
        /\ elective_flag(Head(frame.courses)) /\ Head(frame.courses).L > 0 =>
              \A i \in 1..Len(semester_elective_slots[frame.semester_id][ALL_ELECTIVES]) :
                 LET pair == semester_elective_slots[frame.semester_id][ALL_ELECTIVES][i]
                 IN  pair[1] \notin frame.entry_avoid_days =>
                        \A c \in Cover(<<pair>>, LECTURE_DURATION) :
                           frame.schedule[c].class_type = "Lecture"


-----------------------------------------------------------------------------
(* Vocabulary of the claims about one search *)

\* the step is an iteration of a fresh search that commits a meeting
SearchCommits ==
    /\ frame.pc \in {"labs", "lectures", "tutorials"}
    /\ frame'.pc = frame.pc
    /\ Len(frame'.scheduled_slots) > Len(frame.scheduled_slots)

\* the day of the meeting the step commits
CommittedDay == frame'.scheduled_slots[Len(frame'.scheduled_slots)][1]

\* the days of the components of the course placed by its earlier searches
EarlierComponentDays == DaysOf(frame.lab_slots) \cup DaysOf(frame.lec_slots)

\* the duration of the component the running search places
SearchDuration ==
    IF frame.pc = "labs" THEN LAB_DURATION
    ELSE IF frame.pc = "lectures" THEN LECTURE_DURATION ELSE TUTORIAL_DURATION

\* C24 as stated: the days of the earlier components of the course (its
\* lab for the lecture search, its lab and lecture for the tutorial search)
\* are in the avoid-set of the running search, and the search draws a
\* candidate on such a day only when it has no candidate on another day.
C24_AvoidsDaysOfEarlierComponents ==
    frame.pc \in {"lectures", "tutorials"} /\ frame.courses # <<>> =>
        /\ EarlierComponentDays \subseteq frame.avoid_days
        /\ FreshSearchRuns =>
              \A combo \in AvailableCombos(frame) :
                 combo[1] \in EarlierComponentDays =>
                    \A other \in frame.all_combinations :
                       other[1] \in EarlierComponentDays

\* the days of a search's meetings are pairwise distinct
DistinctDays(slots, duration) == Cardinality(DaysOf(slots)) * duration = Len(slots)

\* C25: a fresh search commits a meeting on a day it has already used only
\* when every day is used or avoided, so the meetings of a search lie on
\* pairwise distinct days as long as they are no more than the days the
\* course had not avoided when the search began.
C25_UsedDayOnlyWhenAllUsed ==
    SearchCommits /\ CommittedDay \in frame.used_days
    => DAYS \subseteq (frame.used_days \cup frame.avoid_days)

C25_DistinctDaysInv ==
    (/\ frame.pc \in {"labs", "lectures", "tutorials"}
     /\ Len(frame.scheduled_slots)
            <= Cardinality(DAYS \ frame.entry_avoid_days) * SearchDuration)
    => DistinctDays(frame.scheduled_slots, SearchDuration)

C25_DistinctDays == [][C25_UsedDayOnlyWhenAllUsed]_vars /\ []C25_DistinctDaysInv

\* a search has committed two lectures, on two days
C25_Witness ==
    /\ frame.pc = "lectures"
    /\ Len(frame.scheduled_slots) = 2 * LECTURE_DURATION
    /\ Cardinality(DaysOf(frame.scheduled_slots)) = 2


-----------------------------------------------------------------------------
(* Vocabulary of the registry claims *)

\* the step leaves every entry of the first-writer-wins registries that is
\* set as it is
KeepsSetEntries ==
    /\ \A s \in Semesters :
          /\ semester_minor_slots[s] # <<>> =>
                semester_minor_slots'[s] = semester_minor_slots[s]
          /\ semester_elective_slots[s][ALL_ELECTIVES] # <<>> =>
                semester_elective_slots'[s][ALL_ELECTIVES]
                    = semester_elective_slots[s][ALL_ELECTIVES]
    /\ \A s \in Semesters, c \in Codes :
          session_map[s][c] # NoSession => session_map'[s][c] = session_map[s][c]

\* C26: once the minor registry entry of a semester, the common elective
\* entry of a semester or the session-map entry of a (semester, course) is
\* set, no step of a later department, session or course changes it.
C26_WriteOnceRegistries == [][KeepsSetEntries]_vars

\* the three registries are set and a second call, of another department,
\* has returned a grid with the minor block and the elective lecture at the
\* recorded pairs
C26_Witness ==
    \E t1, t2 \in DOMAIN schedules :
        /\ t1[1] = t2[1] /\ t1[2] # t2[2]
        /\ \E c \in Codes : session_map[t1[1]][c] # NoSession
        /\ semester_minor_slots[t1[1]] # <<>>
        /\ semester_elective_slots[t1[1]][ALL_ELECTIVES] # <<>>
        /\ \A t \in {t1, t2} :
              /\ MinorCellsOf(schedules[t])
                    = Cover(semester_minor_slots[t1[1]], MINOR_DURATION)
              /\ \A c \in Cover(semester_elective_slots[t1[1]][ALL_ELECTIVES],
                                LECTURE_DURATION) :
                    schedules[t][c].class_type = "Lecture"


\* the attempt budget of the running search
BudgetOf ==
    IF frame.pc = "minor" THEN Budget(max_attempts_minor)
    ELSE IF frame.pc = "labs" THEN Budget(max_attempts_labs)
    ELSE IF frame.pc = "tutorials" THEN Budget(max_attempts_tutorials)
    ELSE IF elective_flag(Head(frame.courses)) THEN Budget(max_attempts_electives)
    ELSE Budget(max_attempts_lectures)

SearchPcs == {"minor", "labs", "lectures", "tutorials"}

\* the cells the running search has committed
CommittedCells ==
    IF frame.pc = "minor" THEN Cover(frame.assigned, MINOR_DURATION)
    ELSE SetOf(frame.scheduled_slots)

\* the running search has used no more than its budget, and what it has
\* committed is in the grid and in the global registry
WithinBudgetAndCommitted ==
    frame.pc \in SearchPcs /\ frame.courses # <<>> =>
        /\ frame.attempts <= BudgetOf
        /\ \A c \in CommittedCells :
              /\ frame.schedule[c].course =
                    IF frame.pc = "minor" THEN MINOR_SUBJECT ELSE Head(frame.courses).code
              /\ c \in semester_global_slots[frame.semester_id][<<frame.department,
                                                                   frame.session>>]

\* a step that stays in a search is one counted iteration of its loop and
\* keeps the committed meetings
IterationCounts ==
    frame.pc \in SearchPcs /\ frame'.pc = frame.pc /\ frame' # frame =>
        /\ frame'.attempts = frame.attempts + 1
        /\ CommittedCells \subseteq CommittedCells'

\* a search of a component that gives up with fewer meetings than required
\* returns the committed ones and leaves the grid and the registry alone
ShortReturnKeeps ==
    /\ frame.pc \in SearchPcs
    /\ frame'.pc # frame.pc
    /\ ~AppliesRegistry
    /\ frame.attempts = BudgetOf
    => /\ frame'.schedule = frame.schedule
       /\ semester_global_slots' = semester_global_slots
       /\ frame.pc = "minor" =>
             semester_minor_slots'[frame.semester_id] = frame.assigned
       /\ frame.pc = "labs" => frame'.lab_slots = frame.scheduled_slots
       /\ frame.pc = "lectures" => frame'.lec_slots = frame.scheduled_slots
       /\ frame.pc = "tutorials" => frame'.tut_slots = frame.scheduled_slots

\* C27: every search loop ends within its attempt budget whatever it draws
\* (each iteration is counted and the count never exceeds the budget), and
\* a search whose budget runs out with fewer meetings than required keeps
\* the meetings it has committed in the grid and in the global registry and
\* returns them.
C27_BudgetAndNoRollback ==
    /\ []WithinBudgetAndCommitted
    /\ [][IterationCounts]_vars
    /\ [][ShortReturnKeeps]_vars

\* the search for the minor block has run out of attempts with one of the
\* two pairs committed: the pair is recorded for the semester and its cells
\* are in the grid and in the global registry
C27_Witness ==
    /\ frame.pc = "course"
    /\ Len(semester_minor_slots[frame.semester_id]) = 1
    /\ MINOR_CLASSES_PER_WEEK = 2
    /\ \A c \in Cover(semester_minor_slots[frame.semester_id], MINOR_DURATION) :
          /\ frame.schedule[c] = Label(MINOR_SUBJECT, "Minor")
          /\ c \in semester_global_slots[frame.semester_id][<<frame.department,
                                                               frame.session>>]


-----------------------------------------------------------------------------
(* Vocabulary of the outcome claim *)

\* every required meeting of the three components of the course is placed
AllPlaced(key) ==
    /\ actual_allocations[key].lectures >= CourseRow(key).L
    /\ actual_allocations[key].tutorials >= CourseRow(key).T
    /\ actual_allocations[key].labs >= CourseRow(key).P

NonePlaced(key) ==
    /\ actual_allocations[key].lectures = 0
    /\ actual_allocations[key].tutorials = 0
    /\ actual_allocations[key].labs = 0

\* C28 as stated: a processed course is filed as fully scheduled when every
\* required meeting of its three components is placed, as failed when none
\* is placed, and as partially scheduled otherwise; a course with all of
\* its required meetings placed is never filed as partial or failed.
C28_OutcomeMatchesPlacement ==
    \A key \in DOMAIN actual_allocations :
        Outcome(actual_allocations[key], CourseRow(key)) =
            IF AllPlaced(key) THEN "fully_scheduled"
            ELSE IF NonePlaced(key) THEN "failed"
            ELSE "partially_scheduled"


-----------------------------------------------------------------------------
(* Vocabulary of the claims about _allocate_room_for_course *)

\* the room passes the capacity filter: it is not a room of known capacity
\* smaller than a known enrolment
PassesCapacity(room, needed) ==
    room.capacity = 0 \/ needed = 0 \/ room.capacity >= needed

\* the rooms of the catalog not in use in the semester at the meeting
FreeAt(semester_id, m) ==
    {i \in 1..Len(room_state.classrooms) :
        room_state.classrooms[i].name
            \notin OccupancyAt(room_state.room_occupancy, OccKey(semester_id, m))}

\* the rooms that pass the capacity filter and are free at every meeting
FreeFitting(key, scheduled_slots) ==
    {i \in 1..Len(room_state.classrooms) :
        /\ PassesCapacity(room_state.classrooms[i],
                          get_course_enrollment(room_state, key[1], key[2], key[4]))
        /\ \A m \in scheduled_slots : i \in FreeAt(key[1], m)}

\* the step books the room for the course at the meeting: one record more
\* in the bucket, and the room in its occupancy
BooksAt(key, m, room_name) ==
    /\ BookingsAt(room_state'.room_bookings, OccKey(key[1], m))
          = Append(BookingsAt(room_state.room_bookings, OccKey(key[1], m)),
                   Booking(room_name, key[2], key[4], key[3]))
    /\ OccupancyAt(room_state'.room_occupancy, OccKey(key[1], m))
          = OccupancyAt(room_state.room_occupancy, OccKey(key[1], m)) \cup {room_name}

\* the step books nothing at the meeting
BooksNothingAt(key, m) ==
    /\ BookingsAt(room_state'.room_bookings, OccKey(key[1], m))
          = BookingsAt(room_state.room_bookings, OccKey(key[1], m))
    /\ OccupancyAt(room_state'.room_occupancy, OccKey(key[1], m))
          = OccupancyAt(room_state.room_occupancy, OccKey(key[1], m))

\* C29: a call of _allocate_room_for_course with at least one room that
\* passes the capacity filter and is free at every meeting records the
\* first such room in (capacity, name) order and books it at every meeting;
\* VARIES is recorded only when there is no such room.
C29_SingleRoomStep ==
    \A key \in RoomCourseKeys, scheduled_slots \in LectureMeetings :
        AllocateRoomForCourse(key, scheduled_slots) =>
            LET candidates == FreeFitting(key, scheduled_slots)
                rooms == room_state.classrooms
            IN  /\ candidates # {} =>
                      \E i \in candidates :
                         /\ \A j \in candidates \ {i} : RoomBefore(rooms[i], rooms[j])
                         /\ room_state'.assigned_rooms[key] = rooms[i].name
                         /\ \A m \in scheduled_slots : BooksAt(key, m, rooms[i].name)
                /\ candidates = {} =>
                      \/ key \notin DOMAIN room_state'.assigned_rooms
                      \/ room_state'.assigned_rooms[key] = VARIES

C29_SingleRoomFirstFree == [][C29_SingleRoomStep]_vars

\* a course holds a single room that is not the first room of the catalog,
\* which an earlier course holds at some of the same slots
C29_Witness ==
    \E key \in DOMAIN room_state.assigned_rooms :
        /\ room_state.assigned_rooms[key] \in RoomNames
        /\ room_state.assigned_rooms[key] # room_state.classrooms[1].name
        /\ \E k \in DOMAIN room_state.room_bookings :
              /\ Len(room_state.room_bookings[k]) = 2
              /\ room_state.room_bookings[k][1][1] = room_state.classrooms[1].name
              /\ room_state.room_bookings[k][2]
                    = Booking(room_state.assigned_rooms[key], key[2], key[4], key[3])

\* C30: when no room passes the capacity filter and is free at every
\* meeting, the call books for each meeting with a free room exactly one
\* room, one that passes the capacity filter if such a room is free at the
\* meeting, books nothing for a meeting at which every room is in use, and
\* records VARIES.
C30_PerMeetingStep ==
    \A key \in RoomCourseKeys, scheduled_slots \in LectureMeetings :
        /\ AllocateRoomForCourse(key, scheduled_slots)
        /\ room_state.classrooms # <<>>
        /\ FreeFitting(key, scheduled_slots) = {}
        => /\ room_state'.assigned_rooms[key] = VARIES
           /\ \A m \in scheduled_slots :
                 LET rooms == room_state.classrooms
                     needed == get_course_enrollment(room_state, key[1], key[2], key[4])
                     free == FreeAt(key[1], m)
                     fitting == {i \in free : PassesCapacity(rooms[i], needed)}
                 IN  IF free = {} THEN BooksNothingAt(key, m)
                     ELSE \E i \in free :
                             /\ fitting # {} => i \in fitting
                             /\ BooksAt(key, m, rooms[i].name)

C30_PerMeetingFallback == [][C30_PerMeetingStep]_vars

\* a course is recorded as VARIES, with a room booked at some of its three
\* lecture slots and none at the others
C30_Witness ==
    \E key \in DOMAIN room_state.assigned_rooms :
        /\ room_state.assigned_rooms[key] = VARIES
        /\ <<key, "room">> \in DOMAIN room_state.room_paths
        /\ LET held == {k \in DOMAIN room_state.room_bookings :
                           \E i \in 1..Len(room_state.room_bookings[k]) :
                              /\ room_state.room_bookings[k][i][2] = key[2]
                              /\ room_state.room_bookings[k][i][3] = key[4]}
           IN  held # {} /\ Cardinality(held) < LECTURE_DURATION

\* two rooms are adjacent: same alphabetic prefix, numeric suffixes one apart
Adjacent(room_a, room_b) ==
    /\ RoomPrefix(room_a) = RoomPrefix(room_b)
    /\ \/ RoomNumber(room_a) = RoomNumber(room_b) + 1
       \/ RoomNumber(room_b) = RoomNumber(room_a) + 1

\* the pairs of distinct rooms of the department's lab pool that are in use
\* at none of the lab meetings, as sets of two names
FreePoolPairs(key, lab_meetings) ==
    LET pool == pick_lab_pool_for_department(room_state, key[2])
        names == {pool[i].name : i \in 1..Len(pool)}
        free == {n \in names :
                    \A m \in lab_meetings :
                       n \notin OccupancyAt(room_state.room_occupancy, OccKey(key[1], m))}
    IN  {p \in SUBSET free : Cardinality(p) = 2}
AdjacentPairs(pairs) == {p \in pairs : \E a \in p, b \in p : Adjacent(a, b)}

\* the step records the pair for the course and books its two rooms at
\* every lab meeting
AssignsPair(key, lab_meetings, pair) ==
    \E a \in pair : \E b \in pair \ {a} :
       /\ room_state'.assigned_lab_rooms[key] = PairLabel(a, b)
       /\ room_state'.room_paths[<<key, "lab">>] = "single"
       /\ \A m \in lab_meetings :
             /\ BookingsAt(room_state'.room_bookings, OccKey(key[1], m))
                   = BookingsAt(room_state.room_bookings, OccKey(key[1], m))
                     \o <<Booking(a, key[2], key[4], key[3]),
                          Booking(b, key[2], key[4], key[3])>>
             /\ OccupancyAt(room_state'.room_occupancy, OccKey(key[1], m))
                   = OccupancyAt(room_state.room_occupancy, OccKey(key[1], m))
                     \cup {a, b}

\* C31: a call of _allocate_lab_room_for_course whose lab pool holds an
\* adjacent pair of rooms free at every lab meeting assigns an adjacent pair
\* free at every meeting; it assigns a non-adjacent pair free at every
\* meeting when only such pairs are free at every meeting; and it pairs
\* rooms meeting by meeting only when no pair of the pool is free at every
\* meeting.
C31_LabPairStep ==
    \A key \in RoomCourseKeys, lab_meetings \in LabMeetings :
        AllocateLabRoomForCourse(key, lab_meetings)
        /\ ~(room_state.lab_rooms = <<>> /\ room_state.classrooms = <<>>)
        => LET free == FreePoolPairs(key, lab_meetings)
               adjacent == AdjacentPairs(free)
           IN  /\ adjacent # {} =>
                     \E p \in adjacent : AssignsPair(key, lab_meetings, p)
               /\ adjacent = {} /\ free # {} =>
                     \E p \in free : AssignsPair(key, lab_meetings, p)
               /\ room_state'.room_paths[<<key, "lab">>] = "per_meeting" => free = {}

C31_AdjacentPairPreferred == [][C31_LabPairStep]_vars

\* a course holds a non-adjacent pair of labs at a slot where an earlier
\* course holds the adjacent pair of the same pool
C31_Witness ==
    \E key \in DOMAIN room_state.assigned_lab_rooms :
        /\ room_state.assigned_lab_rooms[key] = PairLabel("H1", "L4")
        /\ room_state.room_paths[<<key, "lab">>] = "single"
        /\ \E k \in DOMAIN room_state.room_bookings :
              /\ Len(room_state.room_bookings[k]) = 4
              /\ room_state.room_bookings[k][1][1] = "L1"
              /\ room_state.room_bookings[k][2][1] = "L2"
              /\ room_state.room_bookings[k][3] = Booking("H1", key[2], key[4], key[3])
              /\ room_state.room_bookings[k][4] = Booking("L4", key[2], key[4], key[3])

\* the rooms of a list of booking records
RoomsOf(records) == {records[i][1] : i \in 1..Len(records)}

\* the rooms in the occupancy of every bucket are the rooms of its records
OccupancyMatchesBookings ==
    \A k \in BucketKeys :
        OccupancyAt(room_state.room_occupancy, k)
            = RoomsOf(BookingsAt(room_state.room_bookings, k))

\* a step keeps the records of every bucket, appends one record for each
\* room it adds to the occupancy of the bucket, and adds no other room
BookingsFollowOccupancy ==
    \A k \in BucketKeys :
        LET old == BookingsAt(room_state.room_bookings, k)
            new == BookingsAt(room_state'.room_bookings, k)
            added == OccupancyAt(room_state'.room_occupancy, k)
                        \ OccupancyAt(room_state.room_occupancy, k)
        IN  /\ Len(new) >= Len(old)
            /\ SubSeq(new, 1, Len(old)) = old
            /\ OccupancyAt(room_state.room_occupancy, k)
                  \subseteq OccupancyAt(room_state'.room_occupancy, k)
            /\ Len(new) - Len(old) = Cardinality(added)
            /\ RoomsOf(SubSeq(new, Len(old) + 1, Len(new))) = added
            /\ \A i \in (Len(old) + 1)..Len(new) :
                  new[i] = Booking(new[i][1], frame.department,
                                   Head(frame.courses).code, frame.session)

\* C32: in every reachable state the rooms in room_occupancy under a
\* (semester, day, slot) key are exactly the rooms with a booking record in
\* room_bookings under that key, and every step that adds rooms to the
\* occupancy of a key appends one (room, department, course, session) record
\* for each of them and nothing else.
C32_OccupancyEqualsBookings ==
    /\ []OccupancyMatchesBookings
    /\ [][BookingsFollowOccupancy]_vars

\* a bucket holds the two records of a lab pair, and its occupancy the two
\* rooms
C32_Witness ==
    \E k \in DOMAIN room_state.room_bookings :
        /\ Len(room_state.room_bookings[k]) = 2
        /\ Cardinality(OccupancyAt(room_state.room_occupancy, k)) = 2
        /\ room_state.room_bookings[k][1][3] = room_state.room_bookings[k][2][3]

\* the room is of the lab category of the classroom table
IsLabRoom(room_name) ==
    \E i \in 1..Len(room_state.lab_rooms) : room_state.lab_rooms[i].name = room_name

\* C33: the room _allocate_room_for_course records for the lectures and
\* tutorials of a course is never a room of the lab category, and the pair
\* _allocate_lab_room_for_course records for its labs is made of rooms of
\* the lab category.
C33_LecturesOutOfLabRooms ==
    /\ \A key \in DOMAIN room_state.assigned_rooms :
          room_state.assigned_rooms[key] \in RoomNames
             => ~IsLabRoom(room_state.assigned_rooms[key])
    /\ \A key \in DOMAIN room_state.assigned_lab_rooms :
          \A a \in RoomNames, b \in RoomNames :
             room_state.assigned_lab_rooms[key] = PairLabel(a, b)
                => IsLabRoom(a) /\ IsLabRoom(b)

\* every department with rows in the semester has been divided
AllDivided(semester) ==
    \A d \in DeptSet :
        DeptCourses(get_semester_courses(catalog, semester), d) # <<>>
           => division[<<semester, d>>].called

\* C34: once divide_courses_by_session has run for every department of a
\* semester, in the order of DEPARTMENTS, a further call for any department
\* returns Pre-Mid and Post-Mid lists with the same course codes as its
\* previous call and leaves the session map of the semester unchanged.
C34_RedivisionStep ==
    \A s \in Semesters, d \in DeptSet :
        AllDivided(s) /\ GetCourseDetails(s, d)
        => /\ session_map' = session_map
           /\ CodesOf(division'[<<s, d>>].pre) = CodesOf(division[<<s, d>>].pre)
           /\ CodesOf(division'[<<s, d>>].post) = CodesOf(division[<<s, d>>].post)

C34_DivisionIdempotent == [][C34_RedivisionStep]_vars

\* CS1 is recorded for Pre-Mid, DSAI holds it in Post-Mid only, and CSE-A
\* has been divided again since the record was made
C34_Witness ==
    /\ AllDivided(DivideSemester)
    /\ session_map[DivideSemester]["CS1"] = "Pre"
    /\ division[<<DivideSemester, "CSE-A">>].called
    /\ division[<<DivideSemester, "CSE-A">>].map_before["CS1"] = "Pre"
    /\ division[<<DivideSemester, "DSAI">>].called
    /\ "CS1" \in CodesOf(division[<<DivideSemester, "DSAI">>].post)
    /\ "CS1" \notin CodesOf(division[<<DivideSemester, "DSAI">>].pre)

\* the registries of the slot allocator and of the room allocator hold no
\* entry
GeneratorRegistriesEmpty ==
    /\ \A s \in Semesters, k \in GlobalKeys : semester_global_slots[s][k] = {}
    /\ \A s \in Semesters : semester_minor_slots[s] = <<>>
    /\ \A s \in Semesters, c \in Codes \cup {ALL_ELECTIVES} :
          semester_elective_slots[s][c] = <<>>
    /\ DOMAIN room_state.room_occupancy = {}
    /\ DOMAIN room_state.room_bookings = {}

\* the session map of the divider holds no entry
SessionMapEmpty ==
    \A s \in Semesters, c \in Codes : session_map[s][c] = NoSession

\* C35: the run that a new setup_environment starts finds every registry
\* empty: the global occupancy, the minor and elective pairs, the room
\* occupancy and the room bookings of the new ScheduleGenerator, and the
\* session map of the divider.
C35_RegistriesStartEmpty ==
    [][SetupEnvironment => (GeneratorRegistriesEmpty /\ SessionMapEmpty)']_vars

\* the cells of a returned grid that hold a class: neither 'Free' nor
\* 'LUNCH BREAK'
ClassCells(schedule) ==
    {c \in Cells : schedule[c].class_type \notin {"Free", "LUNCH BREAK"}}

\* C36: for every (semester, department, session) whose
\* generate_department_schedule call has returned, the set registered in
\* semester_global_slots of the semester under the department and session
\* is the set of cells of the returned grid that hold a class.
C36_GlobalMirrorsGrid ==
    \A t \in DOMAIN schedules :
        semester_global_slots[t[1]][<<t[2], t[3]>>] = ClassCells(schedules[t])

\* a returned grid holds a minor block and two classes of courses, all of
\* them registered
C36_Witness ==
    \E t \in DOMAIN schedules :
        /\ \E c \in ClassCells(schedules[t]) : schedules[t][c].class_type = "Minor"
        /\ \E c \in ClassCells(schedules[t]) : schedules[t][c].class_type = "Lecture"
        /\ \E c \in ClassCells(schedules[t]) : schedules[t][c].class_type = "Lab"
        /\ semester_global_slots[t[1]][<<t[2], t[3]>>] = ClassCells(schedules[t])

\* no bucket of room_bookings holds two records of one room
NoRoomTwice ==
    \A k \in DOMAIN room_state.room_bookings :
        \A i, j \in 1..Len(room_state.room_bookings[k]) :
            room_state.room_bookings[k][i][1] = room_state.room_bookings[k][j][1]
               => i = j

\* C37: with unique room names no (semester, day, slot) bucket of
\* room_bookings ever holds the same room twice, whichever allocation paths
\* the courses took, and validate_room_conflicts returns an empty list.
C37_NoRoomBookedTwice ==
    /\ NoRoomTwice
    /\ validation.run => validation.conflicts = <<>>

\* the validator has run over a registry in which a course was given its
\* rooms meeting by meeting and shares a bucket with another course
C37_Witness ==
    /\ validation.run
    /\ \E key \in RoomCourseKeys, kind \in {"room", "lab"} :
          /\ <<key, kind>> \in DOMAIN room_state.room_paths
          /\ room_state.room_paths[<<key, kind>>] = "per_meeting"
          /\ \E k \in DOMAIN room_state.room_bookings :
                \E i, j \in 1..Len(room_state.room_bookings[k]) :
                   /\ room_state.room_bookings[k][i][2] = key[2]
                   /\ room_state.room_bookings[k][j][2] # key[2]

\* the registry entries keyed by the semester: the global occupancy sets,
\* the minor pairs, the elective pairs, the room occupancy and the room
\* booking records
RegistriesOf(semester, global_slots, minor, elective, rs) ==
    [global |-> global_slots[semester],
     minor |-> minor[semester],
     elective |-> elective[semester],
     occupancy |-> [k \in {b \in DOMAIN rs.room_occupancy : b[1] = semester} |->
                       rs.room_occupancy[k]],
     bookings |-> [k \in {b \in DOMAIN rs.room_bookings : b[1] = semester} |->
                      rs.room_bookings[k]]]

\* the semester of the generate_department_schedule call a step belongs to
StepSemesters == {frame.semester_id, frame'.semester_id} \cap Semesters

\* C38: a step of generate_department_schedule(s, department, session)
\* leaves the registry entries of every semester other than s as they were:
\* global occupancy sets, minor pairs, elective pairs, room occupancy and
\* room booking records.
C38_OtherSemestersStep ==
    \A other \in Semesters \ StepSemesters :
        RegistriesOf(other, semester_global_slots', semester_minor_slots',
                     semester_elective_slots', room_state')
           = RegistriesOf(other, semester_global_slots, semester_minor_slots,
                          semester_elective_slots, room_state)

C38_OtherSemestersUntouched == [][C38_OtherSemestersStep]_vars

\* two semesters have been processed: each has registered cells and room
\* bookings of its own, and the later one a minor block
C38_Witness ==
    /\ \A s \in Semesters :
          /\ \E k \in GlobalKeys : semester_global_slots[s][k] # {}
          /\ \E b \in DOMAIN room_state.room_bookings : b[1] = s
    /\ \E s \in Semesters : semester_minor_slots[s] # <<>>

\* the course is an elective (flagged, or ELEC in its code) or an HSS course
IsElectiveOrHSS(course) ==
    course.elective \/ ContainsELEC(course.code) \/ ContainsHSS(course.code)

\* the 'room' and 'lab_room' values of the allocation record of a course:
\* assigned_rooms.get(alloc_key, '') and assigned_lab_rooms.get(alloc_key, '')
RoomValue(rs, key) ==
    IF key \in DOMAIN rs.assigned_rooms THEN rs.assigned_rooms[key] ELSE NoRoom
LabRoomValue(rs, key) ==
    IF key \in DOMAIN rs.assigned_lab_rooms THEN rs.assigned_lab_rooms[key] ELSE NoRoom

\* C39: the end of _schedule_course for an elective or an HSS course adds
\* nothing to room_occupancy and room_bookings, and the room and lab-room
\* values of its allocation record are empty, whatever meetings the course
\* was given.
C39_NoRoomStep ==
    FinishCourse /\ IsElectiveOrHSS(Head(frame.courses))
    => /\ room_state'.room_occupancy = room_state.room_occupancy
       /\ room_state'.room_bookings = room_state.room_bookings
       /\ RoomValue(room_state', AllocKey(frame)) = NoRoom
       /\ LabRoomValue(room_state', AllocKey(frame)) = NoRoom

====
